---- MODULE Spec2Model ----
(***************************************************************************)
(* Model of the smart_split kitten (kitty/kittens/smart_split): the slot   *)
(* order tracker, the split-tree classifier and normalizer, and the        *)
(* command dispatcher with its deferred post-close normalize.              *)
(*                                                                         *)
(* The terminal host runs every callback on one thread, so a callback      *)
(* (handle_result, or a fired do_normalize timer) is one atomic action:    *)
(* the host's pane list changes only through the calls the callback makes  *)
(* and between callbacks.  Host objects are values here:                   *)
(*   tab   = [windows, pairs, active] plus what the host answers during    *)
(*           one callback (geo, gids, inst, rc)                            *)
(*   pairs = the serialized split tree: Leaf(gid) | Pair(h, one, two)      *)
(* None is 0 for an id and <<>> for a list.                                *)
(***************************************************************************)
EXTENDS Integers, Sequences, FiniteSets, TLC

\* ---------------------------------------------------------------- bounds
\* Window ids the host hands out are 1..MaxWid (fresh, increasing).
MaxWid == 4
\* Ids and list length of the arguments sync_window_order is applied to.
MaxSyncId == 3
MaxSyncLen == 3
\* Panes of the split trees a tab may hold when the kitten is first invoked.
MaxTreePanes == 4
\* Window ids handed out by a host that may refuse calls.
MaxHostWid == 3
\* Accepted expansions of the OS window not yet undone.
MaxGrown == 2
\* Pending do_normalize timers.
MaxTimers == 1
\* Length of the recorded order the store may hold at start.
MaxInitOrder == 2
\* Tab area in cells.
TabCols == 40
TabRows == 12

\* ------------------------------------------------------- program constants
WIDTH_DELTA_CELLS == 8
HEIGHT_DELTA_CELLS == 4
DEFAULT_MIN_COLS == 10
DEFAULT_MIN_ROWS == 3
\* lgd.cell_width / lgd.cell_height: geometry is kept in cells.
CellWidth == 1
CellHeight == 1
\* The host's group id of window w (ids of another counter).
GidBase == 10

\* ------------------------------------------------------------ sequences
Range(s) == {s[i] : i \in 1..Len(s)}
Contains(s, x) == \E i \in 1..Len(s) : s[i] = x
NoDup(s) == \A i, j \in 1..Len(s) : i # j => s[i] # s[j]
\* len(a) == len(b) and set(a) == set(b)
SameIds(a, b) == Len(a) = Len(b) /\ Range(a) = Range(b)
\* [x for x in s if x in keep]
FilterIn(s, keep) == SelectSeq(s, LAMBDA x : x \in keep)
\* for x in more: if x not in s: s.append(x)
RECURSIVE AppendMissing(_, _)
AppendMissing(s, more) ==
    IF more = <<>> THEN s
    ELSE AppendMissing(IF Contains(s, Head(more)) THEN s ELSE Append(s, Head(more)),
                       Tail(more))
\* s.index(x): the first index
IndexOf(s, x) == CHOOSE i \in 1..Len(s) : s[i] = x /\ \A j \in 1..(i - 1) : s[j] # x
\* {wid: idx for idx, wid in enumerate(order)}: the last index wins.
StableIndex(order, x) == CHOOSE i \in 1..Len(order) :
    order[i] = x /\ \A j \in 1..Len(order) : order[j] = x => j <= i
\* sorted(seq, key=...): a stable insertion sort on an integer key per id.
InsertByKey(sorted, x, key) ==
    LET n == Cardinality({i \in 1..Len(sorted) : key[sorted[i]] <= key[x]})
    IN  SubSeq(sorted, 1, n) \o <<x>> \o SubSeq(sorted, n + 1, Len(sorted))
RECURSIVE SortByKey(_, _)
SortByKey(seq, key) ==
    IF seq = <<>> THEN <<>>
    ELSE InsertByKey(SortByKey(SubSeq(seq, 1, Len(seq) - 1), key), seq[Len(seq)], key)
Min2(a, b) == IF a <= b THEN a ELSE b
Max2(a, b) == IF a >= b THEN a ELSE b
SetMax(S) == CHOOSE x \in S : \A y \in S : y <= x
SetMin(S) == CHOOSE x \in S : \A y \in S : x <= y
Abs(x) == IF x < 0 THEN -x ELSE x

Reverse(q) == [i \in 1..Len(q) |-> q[Len(q) + 1 - i]]

\* ----------------------------------------------------------- split tree
NoNode == [none |-> TRUE]
Leaf(g) == [g |-> g]
Pair(h, a, b) == [h |-> h, one |-> a, two |-> b]
is_pair(node) == DOMAIN node = {"h", "one", "two"}
is_leaf(node) == DOMAIN node = {"g"}

\* _collect_pair_leaves
RECURSIVE collect_pair_leaves(_)
collect_pair_leaves(node) ==
    IF is_pair(node) THEN collect_pair_leaves(node.one) \o collect_pair_leaves(node.two)
    ELSE IF is_leaf(node) THEN <<node.g>>
    ELSE <<>>

\* window_group_id: None (0) for a window the host does not list, or whose
\* group the host cannot resolve during this callback (the newest pane).
Newest(tab) == IF tab.windows = <<>> THEN 0 ELSE SetMax(Range(tab.windows))
window_group_id(tab, wid) ==
    IF ~Contains(tab.windows, wid) THEN 0
    ELSE IF ~tab.gids /\ wid = Newest(tab) THEN 0
    ELSE wid + GidBase

\* group_ids_ready
group_ids_ready(tab, window_ids) ==
    \A i \in 1..Len(window_ids) : window_group_id(tab, window_ids[i]) # 0

\* _layout_pairs: the serialized tree of the Splits layout.
layout_pairs(tab) == tab.pairs

\* layout_shape_matches
layout_shape_matches(tab, count) ==
    LET pairs == layout_pairs(tab) IN
    IF count <= 1 THEN TRUE
    ELSE IF ~is_pair(pairs) THEN FALSE
    ELSE IF Len(collect_pair_leaves(pairs)) # count THEN FALSE
    ELSE IF count = 2 THEN pairs.h /\ is_leaf(pairs.one) /\ is_leaf(pairs.two)
    ELSE IF count = 3 THEN
        /\ ~pairs.h
        /\ is_pair(pairs.one)
        /\ is_leaf(pairs.two)
        /\ pairs.one.h
        /\ is_leaf(pairs.one.one)
        /\ is_leaf(pairs.one.two)
    ELSE IF count = 4 THEN
        /\ ~pairs.h
        /\ is_pair(pairs.one)
        /\ is_pair(pairs.two)
        /\ pairs.one.h
        /\ pairs.two.h
        /\ is_leaf(pairs.one.one)
        /\ is_leaf(pairs.one.two)
        /\ is_leaf(pairs.two.one)
        /\ is_leaf(pairs.two.two)
    ELSE FALSE

\* map_gid inside canonical_order_from_pairs: group_to_window.get(gid)
map_gid(tab, window_ids, node) ==
    LET hits == {i \in 1..Len(window_ids) :
                    window_group_id(tab, window_ids[i]) = node.g}
    IN  IF hits = {} THEN 0 ELSE window_ids[SetMax(hits)]

\* canonical_order_from_pairs: <<>> stands for None.
canonical_order_from_pairs(tab, window_ids) ==
    LET count == Len(window_ids)
        pairs == layout_pairs(tab)
    IN
    IF count < 2 \/ count > 4 THEN <<>>
    ELSE IF ~is_pair(pairs) THEN <<>>
    ELSE IF ~layout_shape_matches(tab, count) THEN <<>>
    ELSE IF ~group_ids_ready(tab, window_ids) THEN <<>>
    ELSE LET ids ==
               IF count = 2 THEN
                   <<map_gid(tab, window_ids, pairs.one),
                     map_gid(tab, window_ids, pairs.two)>>
               ELSE IF count = 3 THEN
                   <<map_gid(tab, window_ids, pairs.one.one),
                     map_gid(tab, window_ids, pairs.one.two),
                     map_gid(tab, window_ids, pairs.two)>>
               ELSE
                   <<map_gid(tab, window_ids, pairs.one.one),
                     map_gid(tab, window_ids, pairs.one.two),
                     map_gid(tab, window_ids, pairs.two.one),
                     map_gid(tab, window_ids, pairs.two.two)>>
         IN  IF Contains(ids, 0) THEN <<>> ELSE ids

\* _build_pairs_root
build_pairs_root(group_ids) ==
    LET count == Len(group_ids) IN
    IF count = 2 THEN Pair(TRUE, Leaf(group_ids[1]), Leaf(group_ids[2]))
    ELSE IF count = 3 THEN
        Pair(FALSE, Pair(TRUE, Leaf(group_ids[1]), Leaf(group_ids[2])), Leaf(group_ids[3]))
    ELSE IF count = 4 THEN
        Pair(FALSE, Pair(TRUE, Leaf(group_ids[1]), Leaf(group_ids[2])),
                    Pair(TRUE, Leaf(group_ids[3]), Leaf(group_ids[4])))
    ELSE NoNode

\* The dict normalize_layout writes into the serialized layout state: a
\* group id is an int entry, a nested pair a dict of its own.
IntEntry(gid) == [int |-> gid]
DictEntry(horizontal, one, two) == [horizontal |-> horizontal, one |-> one, two |-> two]
\* Variant: the bottom row of four is written right to left.
serialized_pairs_mirrored(group_ids) ==
    LET count == Len(group_ids) IN
    IF count = 2 THEN DictEntry(TRUE, IntEntry(group_ids[1]), IntEntry(group_ids[2]))
    ELSE IF count = 3 THEN
        DictEntry(FALSE, DictEntry(TRUE, IntEntry(group_ids[1]), IntEntry(group_ids[2])),
                  IntEntry(group_ids[3]))
    ELSE
        DictEntry(FALSE, DictEntry(TRUE, IntEntry(group_ids[1]), IntEntry(group_ids[2])),
                         DictEntry(TRUE, IntEntry(group_ids[4]), IntEntry(group_ids[3])))
\* normalize_layout, lines 597-626: the pairs dict of the serialize path.
serialized_pairs(group_ids) ==
    LET count == Len(group_ids) IN
    IF count = 2 THEN DictEntry(TRUE, IntEntry(group_ids[1]), IntEntry(group_ids[2]))
    ELSE IF count = 3 THEN
        DictEntry(FALSE, DictEntry(TRUE, IntEntry(group_ids[1]), IntEntry(group_ids[2])),
                  IntEntry(group_ids[3]))
    ELSE
        DictEntry(FALSE, DictEntry(TRUE, IntEntry(group_ids[1]), IntEntry(group_ids[2])),
                         DictEntry(TRUE, IntEntry(group_ids[3]), IntEntry(group_ids[4])))
\* layout.unserialize: the host's tree for a pairs dict.
RECURSIVE unserialize(_)
unserialize(entry) ==
    IF "int" \in DOMAIN entry THEN Leaf(entry.int)
    ELSE Pair(entry.horizontal, unserialize(entry.one), unserialize(entry.two))

\* ------------------------------------------------------------- geometry
\* The host lays a pair out by halving its area (bias 0.5): one gets the left
\* or top half.  A rectangle is [left, top, right, bottom] in cells.
Rect(l, t, r, b) == [left |-> l, top |-> t, right |-> r, bottom |-> b]
NoGeom == Rect(0, 0, 0, 0)
RECURSIVE HasLeaf(_, _)
HasLeaf(node, gid) ==
    IF is_leaf(node) THEN node.g = gid
    ELSE IF is_pair(node) THEN HasLeaf(node.one, gid) \/ HasLeaf(node.two, gid)
    ELSE FALSE
\* The rectangle of the group gid, a leaf of node, when node fills area.
RECURSIVE RectOf(_, _, _)
RectOf(node, area, gid) ==
    IF is_leaf(node) THEN area
    ELSE IF node.one = NoNode THEN RectOf(node.two, area, gid)
    ELSE IF node.two = NoNode THEN RectOf(node.one, area, gid)
    ELSE IF node.h THEN
        LET mid == area.left + ((area.right - area.left) \div 2) IN
        IF HasLeaf(node.one, gid)
        THEN RectOf(node.one, Rect(area.left, area.top, mid, area.bottom), gid)
        ELSE RectOf(node.two, Rect(mid, area.top, area.right, area.bottom), gid)
    ELSE
        LET mid == area.top + ((area.bottom - area.top) \div 2) IN
        IF HasLeaf(node.one, gid)
        THEN RectOf(node.one, Rect(area.left, area.top, area.right, mid), gid)
        ELSE RectOf(node.two, Rect(area.left, mid, area.right, area.bottom), gid)
\* The tab's area: the OS window grows by the deltas per accepted expansion.
TabArea(tab) == Rect(0, 0, TabCols + tab.grown * WIDTH_DELTA_CELLS,
                           TabRows + tab.grown * HEIGHT_DELTA_CELLS)

\* _window_geometry: NoGeom stands for None (and is not valid either).
window_geometry(tab, window_id) ==
    IF ~tab.geo \/ ~Contains(tab.windows, window_id)
         \/ ~HasLeaf(tab.pairs, window_id + GidBase)
    THEN NoGeom
    ELSE RectOf(tab.pairs, TabArea(tab), window_id + GidBase)

\* _geometry_valid
geometry_valid(geom) == (geom.right - geom.left) > 0 /\ (geom.bottom - geom.top) > 0

\* geometry_ready
geometry_ready(tab, order) ==
    \A i \in 1..Len(order) : geometry_valid(window_geometry(tab, order[i]))

\* _center_y, doubled to stay in the integers.
center_y2(geom) == geom.top + geom.bottom

\* A sort key (primary, stable_index[wid]) as one integer.
KeyBase == 1000
GeoKey(order, primary) ==
    [w \in Range(order) |-> primary[w] * KeyBase + StableIndex(order, w)]

\* _reorder_by_geometry / order_by_geometry
order_by_geometry(tab, order) ==
    LET count == Len(order)
        geom  == [w \in Range(order) |-> window_geometry(tab, w)]
        lefts == [w \in Range(order) |-> geom[w].left]
        cys   == [w \in Range(order) |-> center_y2(geom[w])]
    IN
    IF count < 2 \/ count > 4 THEN order
    ELSE IF ~geometry_ready(tab, order) THEN order
    ELSE IF count = 2 THEN
        IF Cardinality({lefts[w] : w \in Range(order)}) = 1 THEN order
        ELSE SortByKey(order, GeoKey(order, lefts))
    ELSE IF count = 3 THEN
        LET max_cy == SetMax({cys[w] : w \in Range(order)})
            \* abs(center_y - max_center_y) <= 0.1 on cell coordinates
            bottom_candidates == SelectSeq(order, LAMBDA w : cys[w] = max_cy)
            bottom == SortByKey(bottom_candidates, GeoKey(order, lefts))[1]
            top == SelectSeq(order, LAMBDA w : w # bottom)
        IN  IF Len(top) # 2 THEN order
            ELSE SortByKey(top, GeoKey(order, lefts)) \o <<bottom>>
    ELSE
        LET sorted_by_y == SortByKey(order, GeoKey(order, cys))
            top == SubSeq(sorted_by_y, 1, 2)
            bottom == SubSeq(sorted_by_y, 3, 4)
        IN  SortByKey(top, GeoKey(order, lefts)) \o SortByKey(bottom, GeoKey(order, lefts))

\* order_matches_geometry
order_matches_geometry(tab, order) ==
    IF ~geometry_ready(tab, order) THEN FALSE
    ELSE LET geometry_order == order_by_geometry(tab, order) IN
         IF ~SameIds(geometry_order, order) THEN FALSE
         ELSE geometry_order = order

\* Variant: the serialized tree is not consulted, only the geometry.
three_pane_layout_inverted_by_geometry(tab, window_ids) ==
    LET ids == Range(window_ids)
        tops == [w \in ids |-> window_geometry(tab, w).top]
        lone == {w \in ids : \A v \in ids \ {w} : tops[v] > tops[w]}
    IN  /\ Len(window_ids) = 3
        /\ geometry_ready(tab, window_ids)
        /\ lone # {}

\* Variant: every top/bottom root of three panes counts as inverted.
three_pane_layout_inverted_any_rows(tab, window_ids) ==
    /\ Len(window_ids) = 3
    /\ is_pair(layout_pairs(tab))
    /\ ~layout_pairs(tab).h

\* three_pane_layout_inverted
three_pane_layout_inverted(tab, window_ids) ==
    LET pairs == layout_pairs(tab)
        ids == Range(window_ids)
        tops == [w \in ids |-> window_geometry(tab, w).top]
        epsilon == Max2(1, CellHeight \div 2)
    IN
    IF Len(window_ids) # 3 THEN FALSE
    ELSE IF is_pair(pairs) /\ ~pairs.h THEN
        /\ is_leaf(pairs.one)
        /\ is_pair(pairs.two)
        /\ pairs.two.h
        /\ is_leaf(pairs.two.one)
        /\ is_leaf(pairs.two.two)
    ELSE IF ~geometry_ready(tab, window_ids) THEN FALSE
    ELSE
        LET min_top == SetMin({tops[w] : w \in ids})
            max_top == SetMax({tops[w] : w \in ids})
            top_row == SelectSeq(window_ids, LAMBDA w : Abs(tops[w] - min_top) <= epsilon)
            bottom_row == SelectSeq(window_ids, LAMBDA w : Abs(tops[w] - max_top) <= epsilon)
            total_width == SetMax({window_geometry(tab, w).right : w \in ids})
                             - SetMin({window_geometry(tab, w).left : w \in ids})
            top_geom == window_geometry(tab, top_row[1])
        IN  IF Len(top_row) # 1 \/ Len(bottom_row) # 2 THEN FALSE
            ELSE \* top_width >= int(total_width * 0.9)
                 (top_geom.right - top_geom.left) >= (total_width * 9) \div 10

\* pane_sizes_ok with the default thresholds (no environment override).
pane_sizes_ok(tab, window_ids) ==
    IF window_ids = <<>> THEN TRUE
    ELSE IF ~geometry_ready(tab, window_ids) THEN TRUE
    ELSE \A i \in 1..Len(window_ids) :
            LET geom == window_geometry(tab, window_ids[i])
                cols == Max2(1, (geom.right - geom.left) \div Max2(1, CellWidth))
                rows == Max2(1, (geom.bottom - geom.top) \div Max2(1, CellHeight))
            IN  ~(cols < DEFAULT_MIN_COLS \/ rows < DEFAULT_MIN_ROWS)

\* bottom_row_left_right: <<>> stands for None.
bottom_row_left_right(tab, first_id, second_id) ==
    LET first_geom == window_geometry(tab, first_id)
        second_geom == window_geometry(tab, second_id)
    IN
    IF ~geometry_valid(first_geom) \/ ~geometry_valid(second_geom) THEN <<>>
    ELSE IF first_geom.left = second_geom.left THEN <<>>
    ELSE IF first_geom.left > second_geom.left THEN <<second_id, first_id>>
    ELSE <<first_id, second_id>>

\* _pairs_has_both_axes
RECURSIVE pairs_has_both_axes(_, _, _, _)
pairs_has_both_axes(pairs, target_gid, has_horizontal, has_vertical) ==
    IF is_pair(pairs) THEN
        \/ pairs_has_both_axes(pairs.one, target_gid,
                               has_horizontal \/ pairs.h, has_vertical \/ ~pairs.h)
        \/ pairs_has_both_axes(pairs.two, target_gid,
                               has_horizontal \/ pairs.h, has_vertical \/ ~pairs.h)
    ELSE is_leaf(pairs) /\ pairs.g = target_gid /\ has_horizontal /\ has_vertical

\* The host's neighbor map of a group: an axis is occupied when an ancestor
\* pair of that orientation has both children.
RECURSIVE HostNeighborAxes(_, _, _, _)
HostNeighborAxes(node, gid, hasH, hasV) ==
    IF is_pair(node) THEN
        LET full == node.one # NoNode /\ node.two # NoNode
            h2 == hasH \/ (full /\ node.h)
            v2 == hasV \/ (full /\ ~node.h)
        IN  HostNeighborAxes(node.one, gid, h2, v2) \/ HostNeighborAxes(node.two, gid, h2, v2)
    ELSE is_leaf(node) /\ node.g = gid /\ hasH /\ hasV

\* Variant: only the serialized tree is asked, not the host's neighbor map.
active_window_is_square_slot_pairs_only(tab) ==
    LET group_id == window_group_id(tab, tab.active) IN
    /\ tab.active # 0
    /\ group_id # 0
    /\ pairs_has_both_axes(layout_pairs(tab), group_id, FALSE, FALSE)

\* active_window_is_square_slot
active_window_is_square_slot(tab) ==
    LET active_window_id == tab.active
        group_id == window_group_id(tab, active_window_id)
    IN
    IF active_window_id = 0 THEN FALSE
    ELSE IF HostNeighborAxes(tab.pairs, active_window_id + GidBase, FALSE, FALSE) THEN TRUE
    ELSE IF group_id = 0 THEN FALSE
    ELSE IF pairs_has_both_axes(layout_pairs(tab), group_id, FALSE, FALSE) THEN TRUE
    ELSE FALSE

\* ------------------------------------------------------- order tracker
\* Variant: the recorded order is kept unfiltered.
sync_window_order_unfiltered(state_order, current_ids, new_ids, previous_ids) ==
    AppendMissing(AppendMissing(state_order, FilterIn(new_ids, Range(current_ids))),
                  current_ids)

\* sync_window_order: the order it returns and stores in state["order"].
\* new_ids / previous_ids are <<>> when not given.
sync_window_order(state_order, current_ids, new_ids, previous_ids) ==
    LET live == Range(current_ids)
        kept == IF state_order = <<>> /\ previous_ids # <<>>
                THEN FilterIn(previous_ids, live)
                ELSE FilterIn(state_order, live)
        with_new == AppendMissing(kept, FilterIn(new_ids, live))
    IN  AppendMissing(with_new, current_ids)

\* Variant: the recorded order is trusted as it is.
ensure_order_kept(tab, state_order, window_ids) == state_order

\* _ensure_order: the order it returns and stores in state["order"].
ensure_order(tab, state_order, window_ids) ==
    IF ~SameIds(state_order, window_ids) THEN
        LET order == sync_window_order(state_order, window_ids, <<>>, window_ids) IN
        IF ~SameIds(order, window_ids) THEN order_by_geometry(tab, window_ids)
        ELSE order
    ELSE state_order

\* --------------------------------------------------------- normalizer
\* The group ids normalize_layout resolves for the order.
resolved_group_ids(tab, order) ==
    SelectSeq([i \in 1..Len(order) |-> window_group_id(tab, order[i])], LAMBDA g : g # 0)

\* Variant: the tree is never replaced.
normalize_layout_pairs_kept(tab, order) == tab.pairs

\* Variant: the tree is built from the group ids that did resolve.
normalize_layout_pairs_partial(tab, order) ==
    IF Len(order) <= 1 \/ Len(order) > 4 \/ tab.inst = "none" THEN tab.pairs
    ELSE build_pairs_root(resolved_group_ids(tab, order))

\* normalize_layout's effect on the host's split tree.  tab.inst tells how
\* the host takes the installation: "direct" (pairs_root assigned and laid
\* out), "serialize" (no Pair class, unserialize accepted), "none" (both
\* paths refused, nothing assigned), "assigned" (pairs_root assigned, then
\* relayout and unserialize raised).
normalize_layout_pairs(tab, order) ==
    LET count == Len(order)
        group_ids == resolved_group_ids(tab, order)
    IN
    IF count <= 1 THEN tab.pairs
    ELSE IF count > 4 THEN tab.pairs
    ELSE IF Len(group_ids) # count THEN tab.pairs
    ELSE IF tab.inst = "none" THEN tab.pairs
    ELSE IF tab.inst = "serialize" THEN unserialize(serialized_pairs(group_ids))
    ELSE build_pairs_root(group_ids)

\* Variant: the order comes back rotated by one slot.
normalize_layout_rotated(tab, order) ==
    IF order = <<>> THEN order ELSE Tail(order) \o <<Head(order)>>

\* normalize_layout's return value.
normalize_layout(tab, order) == order

\* Variant: normalize_layout never touches the tree.
Normalized_untouched(tab, order) == tab

\* The tab after normalize_layout(tab, order).
Normalized(tab, order) == [tab EXCEPT !.pairs = normalize_layout_pairs(tab, order)]

\* --------------------------------------------------------------- host
\* What the host does on the calls the kitten makes (kitty's Splits layout).
\* Removing a group collapses its parent pair into the sibling; a root left
\* with one leaf keeps that leaf as its only child.
RECURSIVE RemoveLeaf(_, _)
RemoveLeaf(node, gid) ==
    IF is_leaf(node) THEN (IF node.g = gid THEN NoNode ELSE node)
    ELSE IF ~is_pair(node) THEN node
    ELSE LET a == RemoveLeaf(node.one, gid)
             b == RemoveLeaf(node.two, gid)
         IN  IF a = NoNode THEN b
             ELSE IF b = NoNode THEN a
             ELSE Pair(node.h, a, b)
AsRoot(node, h) ==
    IF is_pair(node) THEN node
    ELSE IF is_leaf(node) THEN Pair(h, node, NoNode)
    ELSE Pair(h, NoNode, NoNode)
RECURSIVE SplitLeaf(_, _, _, _)
SplitLeaf(node, gid, new_gid, horizontal) ==
    IF is_leaf(node) THEN
        (IF node.g = gid THEN Pair(horizontal, Leaf(gid), Leaf(new_gid)) ELSE node)
    ELSE IF ~is_pair(node) THEN node
    ELSE IF node.two = NoNode /\ node.one = Leaf(gid) THEN
        Pair(horizontal, Leaf(gid), Leaf(new_gid))
    ELSE Pair(node.h, SplitLeaf(node.one, gid, new_gid, horizontal),
                      SplitLeaf(node.two, gid, new_gid, horizontal))

\* boss.launch(--location=vsplit|hsplit): the new pane splits the active one
\* (vsplit: side by side), comes after it and takes the focus.
HostLaunch(tab, location, new_id) ==
    [tab EXCEPT !.windows = Append(tab.windows, new_id),
                !.pairs = SplitLeaf(tab.pairs, tab.active + GidBase, new_id + GidBase,
                                    location = "vsplit"),
                !.active = new_id]

\* The host closing a pane; focus moves to `focus`, a pane that stays.
HostClose(tab, wid, focus) ==
    [tab EXCEPT !.windows = SelectSeq(tab.windows, LAMBDA w : w # wid),
                !.pairs = AsRoot(RemoveLeaf(tab.pairs, wid + GidBase), tab.pairs.h),
                !.active = focus]

\* tab.set_active_window
SetActive(tab, wid) ==
    IF Contains(tab.windows, wid) THEN [tab EXCEPT !.active = wid] ELSE tab

\* layout_action move_to_screen_edge: the active group leaves the tree and
\* becomes one side of a new root.
MoveToScreenEdge(tab, edge) ==
    LET gid == tab.active + GidBase
        rest == RemoveLeaf(tab.pairs, gid)
        horizontal == edge \in {"left", "right"}
    IN  IF Len(collect_pair_leaves(tab.pairs)) <= 1 \/ rest = NoNode THEN tab
        ELSE IF edge \in {"left", "top"}
             THEN [tab EXCEPT !.pairs = Pair(horizontal, Leaf(gid), rest)]
             ELSE [tab EXCEPT !.pairs = Pair(horizontal, rest, Leaf(gid))]

\* boss.resize_os_window(width=sign*width_delta, height=sign*height_delta)
ResizeOsWindow(tab, sign) == [tab EXCEPT !.grown = tab.grown + sign]

\* --------------------------------------------------------- dispatcher
\* What one callback leaves behind: the tab, state["order"], state["expanded"],
\* the timers it scheduled, and what it asked of the host.  obs is the pane
\* id list the callback last reconciled the order against; raised tells that
\* a host exception left the callback.
Outcome(tab, order, expanded, timer, launched, closed, obs, raised) ==
    [tab |-> tab, order |-> order, expanded |-> expanded, timer |-> timer,
     launched |-> launched, closed |-> closed, obs |-> obs, raised |-> raised]

\* The callback returned before it asked anything of the host.
Returned(tab, order, expanded) ==
    Outcome(tab, order, expanded, <<>>, FALSE, 0, tab.windows, FALSE)

\* order = normalize_layout(tab, order); state["order"] = order
normalize_and_store(tab, order, expanded) ==
    Outcome(Normalized(tab, order), normalize_layout(tab, order), expanded,
            <<>>, FALSE, 0, tab.windows, FALSE)

\* mode == "normalize"
HandleNormalize(tab, order0, expanded) ==
    normalize_and_store(tab, sync_window_order(order0, tab.windows, <<>>, <<>>), expanded)

\* Variant: the pane count is not looked at.
HandleShrink_any_count(tab, order0, expanded, os_resize) ==
    IF os_resize /\ expanded
    THEN normalize_and_store(IF tab.resize THEN ResizeOsWindow(tab, -1) ELSE tab,
                             sync_window_order(order0, tab.windows, <<>>, <<>>),
                             IF tab.resize THEN FALSE ELSE expanded)
    ELSE Returned(tab, order0, expanded)

\* mode == "shrink"
HandleShrink(tab, order0, expanded, os_resize) ==
    IF os_resize /\ expanded /\ Len(tab.windows) <= 2
    THEN normalize_and_store(IF tab.resize THEN ResizeOsWindow(tab, -1) ELSE tab,
                             sync_window_order(order0, tab.windows, <<>>, <<>>),
                             IF tab.resize THEN FALSE ELSE expanded)
    ELSE Returned(tab, order0, expanded)

\* Variant: the slot before the closed pane.
desired_focus_previous(order_before, target_window_id) ==
    IF Contains(order_before, target_window_id) /\ Len(order_before) > 1
    THEN LET closed_index == IndexOf(order_before, target_window_id) - 1
         IN  order_before[((closed_index + Len(order_before) - 1) % Len(order_before)) + 1]
    ELSE 0

\* The next slot in rotation after the closed pane (0: None).
desired_focus(order_before, target_window_id) ==
    IF Contains(order_before, target_window_id) /\ Len(order_before) > 1
    THEN LET closed_index == IndexOf(order_before, target_window_id) - 1
         IN  order_before[((closed_index + 1) % Len(order_before)) + 1]
    ELSE 0

\* A scheduled do_normalize with the values its closure holds.  slot, target
\* and canonical only record the close: the order it indexed, the pane it
\* closed, and the canonical order of the tree it found (<<>>: none).
Timer(before_ids, order_after, desired_focus_id, slot, target, canonical) ==
    [before_ids |-> before_ids, order_after |-> order_after,
     desired_focus_id |-> desired_focus_id, slot |-> slot, target |-> target,
     canonical |-> canonical]

\* close_window, lines 364-372: order_before
close_order_before(tab, order0, canonical_before) ==
    IF canonical_before # <<>> THEN canonical_before
    ELSE IF geometry_ready(tab, tab.windows) THEN order_by_geometry(tab, tab.windows)
    ELSE ensure_order(tab, order0, tab.windows)

\* close_window, lines 377-383: slot_order
close_slot_order(tab, canonical_before, order_before) ==
    IF canonical_before # <<>> /\ Len(canonical_before) = 4 THEN canonical_before
    ELSE IF geometry_ready(tab, tab.windows) THEN order_by_geometry(tab, tab.windows)
    ELSE order_before

\* close_window, lines 375-386: with four panes the slot order replaces
\* order_before when it holds the target.
close_rotation(tab, target_window_id, order_before, slot_order) ==
    IF Len(tab.windows) = 4 /\ slot_order # <<>> /\ Contains(slot_order, target_window_id)
    THEN slot_order
    ELSE order_before

\* close_window, lines 387-406: focus, order_after, the close and the timer.
\* `focus` is where the host moves the focus.
close_and_schedule(tab, order0, expanded, target_window_id, focus, order_before) ==
    Outcome(IF tab.req THEN HostClose(tab, target_window_id, focus) ELSE tab,
            order0, expanded,
            <<Timer(tab.windows,
                    SelectSeq(order_before, LAMBDA w : w # target_window_id),
                    desired_focus(order_before, target_window_id),
                    order_before, target_window_id,
                    canonical_order_from_pairs([tab EXCEPT !.gids = TRUE], tab.windows))>>,
            FALSE, target_window_id, tab.windows, FALSE)
close_with_order(tab, order0, expanded, target_window_id, focus, canonical_before, order_before) ==
    close_and_schedule(tab, order0, expanded, target_window_id, focus,
        close_rotation(tab, target_window_id, order_before,
                       close_slot_order(tab, canonical_before, order_before)))
close_with_canonical(tab, order0, expanded, target_window_id, focus, canonical_before) ==
    close_with_order(tab, order0, expanded, target_window_id, focus, canonical_before,
                     close_order_before(tab, order0, canonical_before))

\* Variant: only a tab without panes is refused.
HandleCloseWindow_unguarded(tab, order0, expanded, target_window_id, focus) ==
    IF Len(tab.windows) < 1 THEN Returned(tab, order0, expanded)
    ELSE close_with_canonical(tab, order0, expanded, target_window_id, focus,
                              canonical_order_from_pairs(tab, tab.windows))

\* mode == "close_window"
HandleCloseWindow(tab, order0, expanded, target_window_id, focus) ==
    IF Len(tab.windows) <= 1 THEN Returned(tab, order0, expanded)
    ELSE close_with_canonical(tab, order0, expanded, target_window_id, focus,
                              canonical_order_from_pairs(tab, tab.windows))

\* The host closing the tab: no pane is left.
HostCloseTab(tab) ==
    [tab EXCEPT !.windows = <<>>, !.pairs = Pair(TRUE, NoNode, NoNode), !.active = 0]

\* Variant: the flag is reset only after a close that returned.
HandleCloseTab_no_finally(tab, order0, expanded) ==
    Outcome(IF tab.req THEN HostCloseTab(tab) ELSE tab, order0,
            IF tab.req THEN FALSE ELSE expanded,
            <<>>, FALSE, 0, tab.windows, ~tab.req)

\* mode == "close_tab": try: boss.close_tab() finally: expanded = False
HandleCloseTab(tab, order0, expanded) ==
    Outcome(IF tab.req THEN HostCloseTab(tab) ELSE tab, order0, FALSE,
            <<>>, FALSE, 0, tab.windows, ~tab.req)

\* Variant: every count but 1 and 2 goes by parity.
chosen_location_parity(orientation, count) ==
    IF orientation # "auto" THEN orientation
    ELSE IF count = 1 THEN "vsplit"
    ELSE IF count = 2 THEN "hsplit"
    ELSE IF count % 2 = 0 THEN "vsplit" ELSE "hsplit"
\* The launch location of a split.
chosen_location(orientation, count) ==
    IF orientation # "auto" THEN orientation
    ELSE IF count = 1 THEN "vsplit"
    ELSE IF count = 2 THEN "hsplit"
    ELSE IF count = 3 THEN "vsplit"
    ELSE IF count % 2 = 0 THEN "vsplit" ELSE "hsplit"
\* Variant: the third pane stays where the host put it.
move_bottom_never(orientation, count) == FALSE
move_bottom(orientation, count) == orientation = "auto" /\ count = 2

\* Lines 420-430: with three panes only the bottom pane may be split.
bottom_pane_active(tab, geometry_order) ==
    ~(tab.active = 0 \/ Len(geometry_order) # 3 \/ tab.active # geometry_order[3])

\* Variant: the pane count may reach max_windows before the split.
split_allowed_upto(tab, max_windows) ==
    /\ ~(Len(tab.windows) > max_windows)
    /\ Len(tab.windows) = 3 => bottom_pane_active(tab, order_by_geometry(tab, tab.windows))
    /\ ~active_window_is_square_slot(tab)

\* Whether a split or grow goes on to ask the host for a pane.
split_allowed(tab, max_windows) ==
    /\ ~(Len(tab.windows) >= max_windows)
    /\ Len(tab.windows) = 3 => bottom_pane_active(tab, order_by_geometry(tab, tab.windows))
    /\ ~active_window_is_square_slot(tab)

\* split, lines 519-536: the rewrite when a check failed, the order stored.
split_store(tab, order, expanded, rewrite, canonical_after) ==
    Outcome(tab, IF rewrite /\ canonical_after # <<>> THEN canonical_after ELSE order,
            expanded, <<>>, TRUE, 0, tab.windows, FALSE)
split_rewritten(tab, order, expanded, rewrite) ==
    split_store(tab, order, expanded, rewrite, canonical_order_from_pairs(tab, tab.windows))
split_rewrite(tab, order, expanded, rewrite) ==
    split_rewritten(IF rewrite THEN Normalized(tab, order) ELSE tab, order, expanded,
                    rewrite)
\* Variant: the pane sizes are not looked at.
split_check_fails_unsized(tab, order) ==
    \/ ~layout_shape_matches(tab, Len(tab.windows))
    \/ ~(geometry_ready(tab, order) /\ order_matches_geometry(tab, order))
\* Lines 520-524: not layout_ok or not geometry_ok or not size_ok
split_check_fails(tab, order) ==
    \/ ~layout_shape_matches(tab, Len(tab.windows))
    \/ ~(geometry_ready(tab, order) /\ order_matches_geometry(tab, order))
    \/ ~pane_sizes_ok(tab, tab.windows)
split_verify(tab, order, expanded) ==
    split_rewrite(tab, order, expanded, split_check_fails(tab, order))

\* split, lines 500-514: the slot order from the pane count before.
bottom_row_order(order_before, left_right) ==
    IF left_right # <<>>
    THEN <<order_before[1], order_before[2], left_right[1], left_right[2]>>
    ELSE <<>>
split_slot_order(tab, count, order_before, before_ids, new_id) ==
    IF count \in {1, 2} THEN FilterIn(order_before, Range(before_ids)) \o <<new_id>>
    ELSE IF count = 3 /\ Len(order_before) = 3
         THEN bottom_row_order(order_before,
                               bottom_row_left_right(tab, order_before[3], new_id))
    ELSE <<>>
\* split, lines 515-518
split_sync(order, order_before, after_ids, before_ids) ==
    IF ~SameIds(order, after_ids)
    THEN sync_window_order(order_before, after_ids,
                           SelectSeq(after_ids, LAMBDA w : ~Contains(before_ids, w)),
                           before_ids)
    ELSE order
split_order(tab, count, order_before, before_ids, new_id, expanded) ==
    split_verify(tab,
                 split_sync(split_slot_order(tab, count, order_before, before_ids, new_id),
                            order_before, tab.windows, before_ids),
                 expanded)

\* split, lines 484-496: the third pane is moved to the bottom edge.
move_to_bottom(tab, count, orientation, new_id) ==
    IF move_bottom(orientation, count) /\ tab.rc
    THEN MoveToScreenEdge(SetActive(tab, new_id), "bottom")
    ELSE tab
\* split, lines 475-483: boss.launch, outside any try.
split_launch(tab, order_before, expanded, count, orientation, new_id) ==
    IF ~tab.req
    THEN Outcome(tab, order_before, expanded, <<>>, TRUE, 0, tab.windows, TRUE)
    ELSE split_order(move_to_bottom(HostLaunch(tab, chosen_location(orientation, count),
                                               new_id),
                                    count, orientation, new_id),
                     count, order_before, tab.windows, new_id, expanded)
\* split, lines 472-474: order_before = _ensure_order(tab, state, before_ids)
split_ensure(tab, order0, expanded, count, orientation, new_id) ==
    split_launch(tab, ensure_order(tab, order0, tab.windows), expanded, count,
                 orientation, new_id)

\* mode in ("split", "grow")
HandleSplit(tab, order0, expanded, os_resize, max_windows, orientation, new_id) ==
    IF ~split_allowed(tab, max_windows) THEN Returned(tab, order0, expanded)
    ELSE IF os_resize /\ Len(tab.windows) = 1 /\ ~expanded /\ tab.resize
    THEN split_ensure(ResizeOsWindow(tab, 1), order0, TRUE, 1, orientation, new_id)
    ELSE split_ensure(tab, order0, expanded, Len(tab.windows), orientation, new_id)

\* handle_result after the common head.
dispatch(tab, order0, expanded, os_resize, max_windows, orientation, mode, new_id, focus) ==
    IF mode = "normalize" THEN HandleNormalize(tab, order0, expanded)
    ELSE IF mode = "shrink" THEN HandleShrink(tab, order0, expanded, os_resize)
    ELSE IF mode = "close_window"
         THEN HandleCloseWindow(tab, order0, expanded, tab.active, focus)
    ELSE IF mode = "close_tab" THEN HandleCloseTab(tab, order0, expanded)
    ELSE HandleSplit(tab, order0, expanded, os_resize, max_windows, orientation, new_id)

\* handle_result: the common head, then the mode's branch.
handle_result(tab, state, os_resize, max_windows, orientation, mode, new_id, focus) ==
    IF tab.windows = <<>>
    THEN \* active_tab(boss) is None
         Outcome(tab, state.order, state.expanded, <<>>, FALSE, 0, <<>>, FALSE)
    ELSE dispatch(tab, ensure_order(tab, state.order, tab.windows),
                  IF ~os_resize /\ state.expanded THEN FALSE ELSE state.expanded,
                  os_resize, max_windows, orientation, mode, new_id, focus)

\* ------------------------------------------------- deferred normalize
\* order_after kept to the live ids, the live ids it lacks appended.
rotation_order(order_after, after_ids) ==
    AppendMissing(FilterIn(order_after, Range(after_ids)), after_ids)

\* a or b
or_else(a, b) == IF a # <<>> THEN a ELSE b

\* canonical_order_from_pairs(tab, after_ids) or canonical_after
canonical_or(tab, after_ids, canonical_after) ==
    or_else(canonical_order_from_pairs(tab, after_ids), canonical_after)

\* Each stage of do_normalize is [tab, order, so, canonical]: so is
\* state["order"] as the sync_window_order calls so far left it, canonical
\* is canonical_after.
Stage(tab, order, so, canonical) ==
    [tab |-> tab, order |-> order, so |-> so, canonical |-> canonical]

\* order = normalize_layout(tab, order); canonical_after = ... or
\* canonical_after; if canonical_after: order = canonical_after
\* (lines 176-180, 195-200, 219-224).
with_canonical(tab, order, so, canonical_after) ==
    Stage(tab, or_else(canonical_after, order), so, canonical_after)
canonical_stage(tab, order, so, prior) ==
    with_canonical(tab, order, so, canonical_or(tab, tab.windows, prior))
normalize_with(tab, order, so, prior) ==
    canonical_stage(Normalized(tab, order), normalize_layout(tab, order), so, prior)
\* The same after order = sync_window_order(state, ...), which stored it.
normalize_synced(tab, order, prior) == normalize_with(tab, order, order, prior)

\* Lines 164-172: order_after kept to the live ids, completed when it is not
\* the live ids.
fill_order(order, after_ids) ==
    IF ~SameIds(order, after_ids)
    THEN AppendMissing(FilterIn(order, Range(after_ids)), after_ids)
    ELSE order
\* Variant: the live ids are taken newest first.
first_order_newest_first(order_after, after_ids) == Reverse(after_ids)
first_order(order_after, after_ids) ==
    fill_order(IF order_after # <<>> THEN FilterIn(order_after, Range(after_ids))
               ELSE <<>>,
               after_ids)
\* Lines 173-180
first_normalize(tab, so, t, order) ==
    IF ~SameIds(order, tab.windows)
    THEN normalize_synced(tab, sync_window_order(so, tab.windows, <<>>, t.before_ids),
                          <<>>)
    ELSE normalize_with(tab, order, so, <<>>)

\* do_normalize up to the first normalize_layout (lines 153-180).
normalize_first(tab, so, t) ==
    first_normalize(tab, so, t, first_order(t.order_after, tab.windows))

\* The recovery order of the retry (lines 185-194) and of the inversion
\* repair (lines 204-217) read from sync_window_order ...
retry_syncs(s, t, for_inversion) ==
    /\ t.order_after = <<>>
    /\ ~(for_inversion /\ s.canonical # <<>> /\ Len(s.canonical) = 3)
    /\ ~geometry_ready(s.tab, s.tab.windows)
\* ... or from the rotation queue, canonical_after or the geometry.
retry_order(s, t, for_inversion) ==
    IF t.order_after # <<>> THEN rotation_order(t.order_after, s.tab.windows)
    ELSE IF for_inversion /\ s.canonical # <<>> /\ Len(s.canonical) = 3 THEN s.canonical
    ELSE order_by_geometry(s.tab, s.tab.windows)

\* One more normalize_layout with a recovery order (lines 195-200, 219-224;
\* the host answers every pass of the loop alike, so one pass is all).
renormalize(s, t, for_inversion) ==
    IF retry_syncs(s, t, for_inversion)
    THEN normalize_synced(s.tab,
                          sync_window_order(s.so, s.tab.windows, <<>>, t.before_ids),
                          s.canonical)
    ELSE normalize_with(s.tab, retry_order(s, t, for_inversion), s.so, s.canonical)

\* Lines 181-229: the retry when the shape is off, then the inversion repair.
normalize_retry(s, t) ==
    IF ~layout_shape_matches(s.tab, Len(s.tab.windows)) THEN renormalize(s, t, FALSE) ELSE s
normalize_inverted(s, t) ==
    IF Len(s.tab.windows) = 3 /\ three_pane_layout_inverted(s.tab, s.tab.windows)
    THEN renormalize(s, t, TRUE) ELSE s

\* Lines 230-234
left_right_order(s) ==
    IF s.canonical # <<>> THEN s.canonical
    ELSE IF geometry_ready(s.tab, s.tab.windows)
         THEN order_by_geometry(s.tab, s.tab.windows)
    ELSE <<>>
\* Lines 253-256
refreshed_stage(s, tab, refreshed) ==
    Stage(tab, or_else(refreshed, s.order), s.so, or_else(refreshed, s.canonical))
moved_left(s, tab) ==
    refreshed_stage(s, tab, canonical_order_from_pairs(tab, tab.windows))
\* Lines 241-258
force_order(s, order) ==
    IF order = <<>> THEN s
    ELSE IF ~s.tab.rc THEN [s EXCEPT !.tab = SetActive(s.tab, order[1])]
    ELSE moved_left(s, MoveToScreenEdge(SetActive(s.tab, order[1]), "left"))

\* Lines 230-258: two stacked panes are forced left/right.
force_left_right(s) ==
    IF Len(s.tab.windows) = 2 /\ ~layout_shape_matches(s.tab, 2)
    THEN force_order(s, left_right_order(s))
    ELSE s

\* Lines 286-289
geometry_focus(geometry_order) ==
    IF Len(geometry_order) = 2 THEN geometry_order[2] ELSE 0
\* Variant: the desired pane is focused whatever the pane count.
focus_after_close_desired(tab, canonical_after, t) ==
    IF t.desired_focus_id # 0 /\ Contains(tab.windows, t.desired_focus_id)
    THEN t.desired_focus_id
    ELSE 0
\* Lines 281-291: the pane that gets the focus (0: none).
focus_after_close(tab, canonical_after, t) ==
    IF Len(tab.windows) = 2 THEN
        IF canonical_after # <<>> /\ Len(canonical_after) = 2 THEN canonical_after[2]
        ELSE IF geometry_ready(tab, tab.windows)
             THEN geometry_focus(order_by_geometry(tab, tab.windows))
        ELSE 0
    ELSE IF t.desired_focus_id # 0 /\ Contains(tab.windows, t.desired_focus_id)
         THEN t.desired_focus_id
    ELSE 0

\* Lines 292-296
set_focus(tab, order, expanded, focus_id) ==
    Outcome(IF focus_id # 0 THEN SetActive(tab, focus_id) ELSE tab, order, expanded,
            <<>>, FALSE, 0, tab.windows, FALSE)
focus_stage(tab, order, expanded, canonical_after, t) ==
    set_focus(tab, order, expanded, focus_after_close(tab, canonical_after, t))

\* Lines 259-296: the order is stored, the OS window shrunk, the focus set.
store_and_focus(s, expanded, os_resize, t) ==
    IF os_resize /\ expanded /\ Len(s.tab.windows) = 1
    THEN focus_stage(Normalized(IF s.tab.resize THEN ResizeOsWindow(s.tab, -1)
                                ELSE s.tab,
                                s.order),
                     normalize_layout(s.tab, s.order),
                     IF s.tab.resize THEN FALSE ELSE expanded, s.canonical, t)
    ELSE focus_stage(s.tab, s.order, expanded, s.canonical, t)

\* do_normalize, the timer callback of _schedule_normalize_after_close.
do_normalize(tab, state, os_resize, t) ==
    store_and_focus(
        force_left_right(normalize_inverted(normalize_retry(
            normalize_first(tab, state.order, t), t), t)),
        state.expanded, os_resize, t)

\* ------------------------------------------------------- state machine
VARIABLES
    host,       \* the tab: [windows, pairs, active, grown]
    state,      \* boss._smart_split_state[key]: [order, expanded]
    timers,     \* scheduled do_normalize callbacks, in firing order
    nextId,     \* the id the host gives the next pane
    os_resize,  \* KITTY_SMART_SPLIT_OS_RESIZE is on
    last,       \* history: what the latest callback was and saw
    scen,       \* history: pane counts after consecutive auto splits
    call        \* a helper applied on its own: its arguments and result
vars == <<host, state, timers, nextId, os_resize, last, scen, call>>

\* An id of a pane of another tab of the same OS window (the state record
\* is shared by the tabs of an OS window).
ForeignId == 9
\* The argument lists of the split and grow invocations explored:
\* <<max_windows, orientation, mode>>.
SplitArgs == {<<4, "auto", "split">>, <<2, "auto", "split">>, <<4, "hsplit", "split">>,
              <<4, "vsplit", "split">>, <<4, "auto", "grow">>}

\* What the host answers during one callback: geometry readable (geo), the
\* newest pane's group id resolvable (gids), how a tree installation goes
\* (inst), set_active_window and layout actions accepted (rc), launch and
\* close requests performed (req), the OS window resize accepted (resize).
\* A callback draws only the answers to the calls it can make.
Env(geo, gids, inst, rc, req, resize) ==
    [geo : geo, gids : gids, inst : inst, rc : rc, req : req, resize : resize]
Yes == {TRUE}
Direct == {"direct"}
Insts == {"direct", "none"}
NominalEnv == [geo |-> TRUE, gids |-> TRUE, inst |-> "direct",
               rc |-> TRUE, req |-> TRUE, resize |-> TRUE]
Tab(env) == [windows |-> host.windows, pairs |-> host.pairs, active |-> host.active,
             grown |-> host.grown, geo |-> env.geo, gids |-> env.gids,
             inst |-> env.inst, rc |-> env.rc, req |-> env.req, resize |-> env.resize]
HostOf(tab) == [windows |-> tab.windows, pairs |-> tab.pairs, active |-> tab.active,
                grown |-> tab.grown]
\* The tab as a callback with a cooperating host reads it.
NowTab == Tab(NominalEnv)

SeqsUpTo(S, n) == UNION {[1..k -> S] : k \in 0..n}
NoTimer == Timer(<<>>, <<>>, 0, <<>>, 0, <<>>)
\* installable: during that callback every group id was resolvable and the
\* host took tree installations.
Installable(env) == env.gids /\ env.inst # "none"
\* The calls of split_repaint_focus_bounce a callback makes: do_normalize
\* ends with one, a split or grow reaches the one at its end when its launch
\* returned; the other modes return before it.
repaint_calls(op, out) ==
    IF op = "timer" THEN 1
    ELSE IF op = "split" /\ out.launched /\ ~out.raised THEN 1
    ELSE 0
\* max: the max_windows argument of a split or grow that launched a pane
\* (0 otherwise); installable: of a deferred normalize; closed: the pane a
\* close was asked for (0: none); repaint: the repaint calls made; resize:
\* the host took the OS window resizes asked during the callback.
Last(op, max, out, env, t) ==
    [op |-> op, max |-> IF out.launched THEN max ELSE 0, obs |-> out.obs,
     installable |-> op = "timer" => Installable(env),
     launched |-> out.launched, raised |-> out.raised, t |-> t,
     closed |-> out.closed, repaint |-> repaint_calls(op, out),
     resize |-> env.resize]
InitLast ==
    [op |-> "init", max |-> 0, obs |-> <<>>, installable |-> TRUE,
     launched |-> FALSE, raised |-> FALSE, t |-> NoTimer,
     closed |-> 0, repaint |-> 0, resize |-> TRUE]
NoScen == <<>>
NoCall == [fn |-> "none"]

Init ==
    /\ host = [windows |-> <<1>>, pairs |-> Pair(TRUE, Leaf(1 + GidBase), NoNode),
               active |-> 1, grown |-> 0]
    /\ state \in [order : SeqsUpTo({1, ForeignId}, MaxInitOrder), expanded : {FALSE}]
    /\ timers = <<>>
    /\ nextId = 2
    /\ os_resize = FALSE
    /\ last = InitLast
    /\ scen = NoScen
    /\ call = NoCall

\* A callback's effect on the variables.
Callback(op, max, out, env, t) ==
    /\ host' = HostOf(out.tab)
    /\ state' = [order |-> out.order, expanded |-> out.expanded]
    /\ nextId' = IF out.launched /\ ~out.raised THEN nextId + 1 ELSE nextId
    /\ last' = Last(op, max, out, env, t)
    /\ UNCHANGED os_resize

\* mode split or grow.  scen follows the splits asked with max_panes=4 and
\* orientation=auto, one after the other, from a one-pane tab.
Scenario(tracked, count) ==
    IF tracked /\ Len(host.windows) = 1 THEN <<count>>
    ELSE IF tracked /\ scen # <<>> /\ Len(scen) < 4 THEN Append(scen, count)
    ELSE NoScen
SplitStep(mode, max_windows, orientation, env, out) ==
    /\ out.launched => nextId <= MaxWid
    /\ Callback("split", max_windows, out, env, NoTimer)
    /\ scen' = Scenario(mode = "split" /\ max_windows = 4 /\ orientation = "auto",
                        Len(out.tab.windows))
    /\ UNCHANGED <<timers, call>>
InvokeSplit(mode, max_windows, orientation, env) ==
    /\ host.windows # <<>>
    /\ SplitStep(mode, max_windows, orientation, env,
                 handle_result(Tab(env), state, os_resize, max_windows, orientation,
                               mode, nextId, 0))

SplitEnvs(max_windows, orientation) ==
    IF Len(host.windows) < max_windows
    THEN Env(BOOLEAN, BOOLEAN, Insts, Yes, Yes, Yes)
    ELSE Env(Yes, Yes, Direct, Yes, Yes, Yes)

\* mode normalize, shrink, close_tab
OtherStep(mode, env) ==
    /\ Callback(mode, 0,
                handle_result(Tab(env), state, os_resize, 4, "auto", mode, nextId, 0),
                env, NoTimer)
    /\ scen' = NoScen
    /\ UNCHANGED <<timers, call>>
InvokeNormalize(env) ==
    /\ host.windows # <<>>
    /\ OtherStep("normalize", env)
InvokeShrink(env) ==
    /\ host.windows # <<>>
    /\ OtherStep("shrink", env)
InvokeCloseTab(env) ==
    /\ host.windows # <<>>
    /\ OtherStep("close_tab", env)

\* mode close_window, asked from the active pane.
CloseStep(env, out) ==
    /\ Len(timers) + Len(out.timer) <= MaxTimers
    /\ Callback("close_window", 0, out, env, NoTimer)
    /\ timers' = timers \o out.timer
    /\ scen' = NoScen
    /\ UNCHANGED call
InvokeCloseWindow(env, focus) ==
    /\ host.windows # <<>>
    /\ CloseStep(env, handle_result(Tab(env), state, os_resize, 4, "auto",
                                    "close_window", nextId, focus))

\* Variant: the timer repeats, it stays scheduled after it fired.
FireTimer_repeating(env) ==
    /\ timers # <<>>
    /\ Callback("timer", 0, do_normalize(Tab(env), state, os_resize, Head(timers)),
                env, Head(timers))
    /\ timers' = timers
    /\ scen' = NoScen
    /\ UNCHANGED call

\* The oldest timer fires: do_normalize as a whole.
FireTimer(env) ==
    /\ timers # <<>>
    /\ Callback("timer", 0, do_normalize(Tab(env), state, os_resize, Head(timers)),
                env, Head(timers))
    /\ timers' = Tail(timers)
    /\ scen' = NoScen
    /\ UNCHANGED call

\* The user moves the focus.
UserFocus(wid) ==
    /\ wid # host.active
    /\ host' = [host EXCEPT !.active = wid]
    /\ scen' = NoScen
    /\ UNCHANGED <<state, timers, nextId, os_resize, last, call>>

Live == Range(host.windows)
\* The panes the host may focus when the active one is closed.
Others == Live \ {host.active}
\* 0: no pane is left to take the focus.
CloseFocus == IF Others = {} THEN {0} ELSE Others

Next ==
    \/ \E args \in SplitArgs : \E env \in SplitEnvs(args[1], args[2]) :
            InvokeSplit(args[3], args[1], args[2], env)
    \/ \E env \in Env(BOOLEAN, BOOLEAN, Insts, Yes, Yes, Yes) : InvokeNormalize(env)
    \/ \E env \in Env(Yes, Yes, Direct, Yes, Yes, Yes) : InvokeShrink(env)
    \/ \E env \in Env(Yes, Yes, Direct, Yes, Yes, Yes) : InvokeCloseTab(env)
    \/ \E env \in Env(BOOLEAN, BOOLEAN, Direct, Yes, Yes, Yes), focus \in CloseFocus :
            InvokeCloseWindow(env, focus)
    \/ \E env \in Env(BOOLEAN, BOOLEAN, Insts, Yes, Yes, Yes) : FireTimer(env)
    \/ \E wid \in Live : UserFocus(wid)

Spec == Init /\ [][Next]_vars

\* A step of the user moving the focus: the only one that leaves last alone
\* and changes the host.
FocusOnly == last' = last /\ host' # host /\ state' = state /\ timers' = timers
\* The steps that are a close_window callback, and those that are a timer.
IsCloseWindow == last'.op = "close_window" /\ ~FocusOnly
IsTimer == last'.op = "timer" /\ ~FocusOnly
\* The event loop runs a timer that is due.
TimerFires == timers # <<>> /\ timers' = Tail(timers)
SpecLoop == Spec /\ WF_timers(TimerFires)

\* ------------------------------------------- sync_window_order on its own
\* The arguments are drawn at the start; SyncCall applies the function.
NoDupSeqs(S, n) == {q \in SeqsUpTo(S, n) : NoDup(q)}
SyncIds == 1..MaxSyncId
SyncArgs ==
    [fn : {"sync_window_order"},
     order : SeqsUpTo(SyncIds, MaxSyncLen),
     current_ids : NoDupSeqs(SyncIds, MaxSyncLen),
     new_ids : NoDupSeqs(SyncIds, 1),
     previous_ids : NoDupSeqs(SyncIds, 2),
     ret : {<<>>}, done : {FALSE}]

InitSync ==
    /\ host = [windows |-> <<1>>, pairs |-> Pair(TRUE, Leaf(1 + GidBase), NoNode),
               active |-> 1, grown |-> 0]
    /\ state = [order |-> <<>>, expanded |-> FALSE]
    /\ timers = <<>>
    /\ nextId = 2
    /\ os_resize = FALSE
    /\ last = InitLast
    /\ scen = NoScen
    /\ call \in SyncArgs

SyncCall ==
    /\ call.fn = "sync_window_order"
    /\ ~call.done
    /\ call' = [call EXCEPT
                   !.ret = sync_window_order(call.order, call.current_ids,
                                             call.new_ids, call.previous_ids),
                   !.done = TRUE]
    /\ UNCHANGED <<host, state, timers, nextId, os_resize, last, scen>>

NextSync == SyncCall
SpecSync == InitSync /\ [][NextSync]_vars

\* C1: sync_window_order(O, L) returns a list whose members are exactly the
\* live ids L, in which the ids of O that are live keep the order they have
\* in O, and in which every live id that O lacks comes after every id of O.
C1_SyncOrder ==
    (call.fn = "sync_window_order" /\ call.done) =>
        LET O == call.order
            L == call.current_ids
            R == call.ret
        IN  /\ Range(R) = Range(L)
            /\ FilterIn(R, Range(O)) = FilterIn(O, Range(L))
            /\ \A i, j \in 1..Len(R) :
                  (Contains(O, R[i]) /\ ~Contains(O, R[j])) => i < j

\* A call that keeps two ids of O in O's order (against L's), drops a dead
\* id of O and appends a live id O lacks.
C1_Witness ==
    /\ call.fn = "sync_window_order" /\ call.done
    /\ call.order = <<3, 1>>
    /\ call.current_ids = <<1, 2, 3>>
    /\ call.ret = <<3, 1, 2>>
    /\ call.new_ids = <<>> /\ call.previous_ids = <<>>

\* ------------------------------------------- a tab with any split tree
\* The kitten is first invoked on a tab the user arranged with the host's own
\* splits: any tree over the panes 1..n, and a recorded order that is empty,
\* current, stale or holds a duplicate.
RECURSIVE Trees(_)
Trees(S) ==
    IF Cardinality(S) = 1 THEN {Leaf(w + GidBase) : w \in S}
    ELSE UNION {{Pair(h, a, b) : h \in BOOLEAN, a \in Trees(A), b \in Trees(S \ A)} :
                A \in (SUBSET S) \ {{}, S}}
HostTrees(n) ==
    IF n = 1 THEN {Pair(TRUE, Leaf(1 + GidBase), NoNode)} ELSE Trees(1..n)
TreeOrders(ids) == {<<>>, ids, Reverse(ids), <<ids[1], ids[1]>>, <<ForeignId>> \o ids}

InitTree ==
    /\ \E n \in 1..MaxTreePanes :
          /\ host \in [windows : {[i \in 1..n |-> i]}, pairs : HostTrees(n),
                        active : {n}, grown : {0}]
          /\ state \in [order : TreeOrders([i \in 1..n |-> i]), expanded : {FALSE}]
          /\ nextId = n + 1
    /\ timers = <<>>
    /\ os_resize = FALSE
    /\ last = InitLast
    /\ scen = NoScen
    /\ call = NoCall

\* three_pane_layout_inverted applied to the tab as it is.
Classify(env) ==
    /\ call' = [fn |-> "three_pane_layout_inverted", pairs |-> host.pairs,
                window_ids |-> host.windows, geo |-> env.geo,
                ret |-> three_pane_layout_inverted(Tab(env), host.windows)]
    /\ UNCHANGED <<host, state, timers, nextId, os_resize, last, scen>>

\* mode normalize, with what the invocation found and did: the recorded
\* order it found, whether a group id was resolved for every pane and the
\* host took the installation (installable), whether it left another tree
\* than it found (rewrote), whether the step before was a normalize
\* invocation too (again).
NormalizeStep(env, out) ==
    /\ Callback("normalize", 0, out, env, NoTimer)
    /\ scen' = NoScen
    /\ call' = [fn |-> "normalize", order |-> state.order,
                installable |-> Installable(env),
                rewrote |-> out.tab.pairs # host.pairs,
                again |-> call.fn = "normalize"]
    /\ UNCHANGED timers
NormalizeTree(env) ==
    /\ host.windows # <<>>
    /\ NormalizeStep(env, handle_result(Tab(env), state, os_resize, 4, "auto",
                                        "normalize", nextId, 0))

NextTree ==
    \/ \E env \in Env(BOOLEAN, BOOLEAN, Insts, Yes, Yes, Yes) : NormalizeTree(env)
    \/ \E env \in Env(BOOLEAN, Yes, Direct, Yes, Yes, Yes) : Classify(env)
SpecTree == InitTree /\ [][NextTree]_vars

\* The two 3-pane trees the classifier tells apart.
Gids == {w + GidBase : w \in 1..MaxWid}
InvertedTree(pairs) ==
    \E a, b, c \in Gids : pairs = Pair(FALSE, Leaf(a), Pair(TRUE, Leaf(b), Leaf(c)))
CanonicalTree3(pairs) ==
    \E a, b, c \in Gids : pairs = Pair(FALSE, Pair(TRUE, Leaf(a), Leaf(b)), Leaf(c))

C8_InvertedClassifier ==
    (call.fn = "three_pane_layout_inverted" /\ Len(call.window_ids) = 3) =>
        /\ InvertedTree(call.pairs) => call.ret
        /\ CanonicalTree3(call.pairs) => ~call.ret

\* The classifier answered true for an inverted tree whose geometry the host
\* would not tell.
C8_Witness ==
    /\ call.fn = "three_pane_layout_inverted"
    /\ Len(call.window_ids) = 3
    /\ InvertedTree(call.pairs)
    /\ ~call.geo
    /\ call.ret

\* C10: a normalize invocation that directly follows a normalize
\* invocation leaves the recorded slot order as the first one left it.
C10_NormalizeIdempotent ==
    (call.fn = "normalize" /\ call.again) => state.order = call.order

\* Two normalize invocations in a row on a four-pane tab whose recorded
\* order was not the order of its tree.
C10_Witness ==
    /\ call.fn = "normalize" /\ call.again
    /\ Len(state.order) = 4
    /\ canonical_order_from_pairs(NowTab, host.windows) = state.order
    /\ state.order # host.windows

\* C2: once a split, grow, shrink, close_window or normalize invocation, or
\* a deferred normalize, has returned, the recorded slot order holds no id
\* twice and its members are exactly the live pane ids that callback
\* observed, whatever the recorded order was at the start.
C2_SlotOrder ==
    last.op \in {"split", "normalize", "shrink", "close_window", "timer"} =>
        /\ NoDup(state.order)
        /\ Range(state.order) = Range(last.obs)

\* A deferred normalize found the recorded order of four panes, one of them
\* closed since, and left the order of the three live panes.
C2_Witness ==
    /\ last.op = "timer"
    /\ last.t.before_ids = <<1, 2, 3, 4>> /\ last.t.target = 3
    /\ last.obs = <<1, 2, 4>>
    /\ state.order = <<1, 2, 4>>

\* C4: from a one-pane tab, consecutive split invocations with max_panes=4
\* and orientation=auto give 2, 3 and 4 panes, each time in the canonical
\* shape of the count; the fourth launches nothing and leaves 4 panes.
C4_SplitScenario ==
    scen # <<>> =>
        LET k == Len(scen) IN
        /\ Len(host.windows) = scen[k]
        /\ k <= 3 => (scen[k] = k + 1 /\ layout_shape_matches(NowTab, k + 1))
        /\ k = 4 => (scen[k] = 4 /\ ~last.launched)

\* The four invocations have been made.
C4_Witness ==
    /\ scen = <<2, 3, 4, 4>>
    /\ last.op = "split" /\ ~last.launched
    /\ layout_shape_matches(NowTab, 4)

\* C5: in a 4-pane tab of canonical order [a,b,c,d], close_window on c and
\* then its deferred normalize (the only one pending) leave three panes of
\* canonical order [a,b,d], not inverted.
C5_CloseThird ==
    [][(/\ last.op = "close_window"
        /\ timers = <<last'.t>>
        /\ last'.op = "timer"
        /\ Len(last'.t.canonical) = 4
        /\ last'.t.target = last'.t.canonical[3]) =>
          (LET c == last.t.canonical IN
           /\ Len(host.windows) = 3
           /\ canonical_order_from_pairs(NowTab, host.windows) = <<c[1], c[2], c[4]>>
           /\ ~three_pane_layout_inverted(NowTab, host.windows))']_vars

\* The third slot of the grid 1 2 / 3 4 was closed and its timer has fired.
C5_Witness ==
    /\ last.op = "timer"
    /\ last.t.canonical = <<1, 2, 3, 4>>
    /\ last.t.target = 3
    /\ host.windows = <<1, 2, 4>>
    /\ canonical_order_from_pairs(NowTab, host.windows) = <<1, 2, 4>>

\* C6: a split or grow invocation called with max_panes=M launches a pane
\* only at a pane count below M, so it takes no tab of at most M panes
\* beyond M; when it launches nothing the panes stay as they are.
C6_PaneBound ==
    [][(last'.op = "split" /\ last' # last) =>
          IF last'.launched
          THEN /\ Len(host.windows) < last'.max
               /\ Len(host'.windows) <= last'.max
          ELSE host'.windows = host.windows]_vars

\* A split with max_panes=4 launched the fourth pane, and the next split
\* launched nothing.
C6_Witness ==
    /\ last.op = "split" /\ ~last.launched
    /\ Len(host.windows) = 4
    /\ scen = <<2, 3, 4, 4>>

\* The pane after x in the slot order, the first one after the last.
FollowingSlot(slot, x) ==
    LET i == CHOOSE j \in 1..Len(slot) : slot[j] = x
    IN  slot[IF i = Len(slot) THEN 1 ELSE i + 1]
AllTimers == Range(timers) \cup {last.t}

\* C7: for a slot order of 2 to 4 panes and the pane x being closed, the
\* focus close_window asks for is the pane at the following slot, the first
\* slot following the last.
C7_NextFocus ==
    \A t \in AllTimers :
        (Len(t.slot) \in 2..4 /\ Contains(t.slot, t.target)) =>
            t.desired_focus_id = FollowingSlot(t.slot, t.target)

\* The last of four slots was closed: the focus wraps to the first.
C7_Witness ==
    \E t \in Range(timers) :
        /\ Len(t.slot) = 4
        /\ t.target = t.slot[4]
        /\ t.desired_focus_id = t.slot[1]

HostEnvs(rc, req, resize) == Env(Yes, Yes, Direct, rc, req, resize)
HostArgs == {<<4, "auto", "split">>}

InitHost ==
    /\ host = [windows |-> <<1>>, pairs |-> Pair(TRUE, Leaf(1 + GidBase), NoNode),
               active |-> 1, grown |-> 0]
    /\ state = [order |-> <<>>, expanded |-> FALSE]
    /\ timers = <<>>
    /\ nextId = 2
    /\ os_resize = TRUE
    /\ last = InitLast
    /\ scen = NoScen
    /\ call = NoCall

NextHost ==
    \/ \E args \in HostArgs, env \in HostEnvs(BOOLEAN, BOOLEAN, BOOLEAN) :
            /\ nextId <= MaxHostWid
            /\ host.grown < MaxGrown
            /\ InvokeSplit(args[3], args[1], args[2], env)
    \/ \E env \in HostEnvs(Yes, Yes, Yes) : InvokeNormalize(env)
    \/ \E env \in HostEnvs(Yes, Yes, BOOLEAN) : InvokeShrink(env)
    \/ \E env \in HostEnvs(Yes, BOOLEAN, Yes) : InvokeCloseTab(env)
    \/ \E env \in HostEnvs(Yes, BOOLEAN, Yes), focus \in CloseFocus :
            InvokeCloseWindow(env, focus)
    \/ \E env \in HostEnvs(BOOLEAN, Yes, BOOLEAN) : FireTimer(env)
    \/ \E wid \in Live : UserFocus(wid)
SpecHost == InitHost /\ [][NextHost]_vars

\* C11, as stated: no callback ends with a host exception leaving it,
\* whichever host call raises.
C11_NoEscape == ~last.raised

\* ---------------------------------------------- normalize_layout on its own
\* normalize_layout applied to a tab with any split tree, with an order that
\* is empty, one id, the live ids, those reversed, more than the live ids,
\* or an id of no pane, under every way the host takes the installation.
AllInsts == {"direct", "serialize", "none", "assigned"}
LayoutOrders(ids) ==
    {<<>>, <<ids[1]>>, ids, Reverse(ids), ids \o <<ForeignId>>, ids \o ids}

InitLayout ==
    /\ \E n \in 1..MaxTreePanes :
          /\ host \in [windows : {[i \in 1..n |-> i]}, pairs : HostTrees(n),
                        active : {n}, grown : {0}]
          /\ nextId = n + 1
    /\ state = [order |-> <<>>, expanded |-> FALSE]
    /\ timers = <<>>
    /\ os_resize = FALSE
    /\ last = InitLast
    /\ scen = NoScen
    /\ call = NoCall

\* One call: what it was given, what it found and what it returned.
\* unresolved: some pane of the order had no group id; failed: the direct
\* installation and the serialize path both failed.
LayoutCall(env, order) ==
    /\ call' = [fn |-> "normalize_layout", order |-> order, inst |-> env.inst,
                before |-> host.pairs,
                unresolved |-> Len(resolved_group_ids(Tab(env), order)) # Len(order),
                failed |-> env.inst \in {"none", "assigned"},
                ret |-> normalize_layout(Tab(env), order)]
    /\ host' = HostOf(Normalized(Tab(env), order))
    /\ UNCHANGED <<state, timers, nextId, os_resize, last, scen>>

NextLayout ==
    \E env \in Env(Yes, BOOLEAN, AllInsts, Yes, Yes, Yes) :
        \E order \in LayoutOrders(host.windows) : LayoutCall(env, order)
SpecLayout == InitLayout /\ [][NextLayout]_vars

\* C12, as stated: when the direct installation of the pairs root failed and
\* the serialize path failed too, the host's split tree after
\* normalize_layout is the tree it held before.
C12_TreeKept ==
    (call.fn = "normalize_layout" /\ call.failed) => host.pairs = call.before

\* C16: normalize_layout leaves the host's split tree as it was and returns
\* its input order when the order has 0, 1 or more than 4 entries, or when a
\* pane of the order has no resolvable group id.
C16_NoOp ==
    (/\ call.fn = "normalize_layout"
     /\ (Len(call.order) <= 1 \/ Len(call.order) > 4 \/ call.unresolved)) =>
        /\ host.pairs = call.before
        /\ call.ret = call.order

\* A three-pane tree off the canonical shape stayed as it was because the
\* newest pane had no group id yet, though the host would have taken a tree.
C16_Witness ==
    /\ call.fn = "normalize_layout" /\ call.unresolved
    /\ call.order = <<1, 2, 3>> /\ call.inst = "direct"
    /\ host.pairs = call.before
    /\ ~layout_shape_matches(NowTab, 3)
    /\ call.ret = call.order

Budget(loop) ==
    CASE loop = "change" -> 20
      [] loop = "settle" -> 12
      [] loop = "group" -> 12
      [] loop = "count" -> 30
      [] OTHER -> 3
\* Variant: the loop goes on until its condition is met.
exhausted_never(loop, i) == FALSE
\* The for loop has used its range.
exhausted(loop, i) == i >= Budget(loop)

\* The loops a callback runs through, in order, and those it runs only on
\* a condition (move_bottom, a rewrite, order_after, a shape off, an
\* inverted tree).
WaitLoops(cb) ==
    CASE cb = "split" -> <<"change", "settle", "settle", "group">>
      [] cb = "normalize" -> <<"settle">>
      [] OTHER -> <<"change", "count", "settle", "group", "settle", "group", "inversion">>
OptionalLoops(cb) ==
    CASE cb = "split" -> {2, 4}
      [] cb = "normalize" -> {}
      [] OTHER -> {2, 5, 6, 7}

\* The pane lists the host may show, the one the callback started from
\* (previous_ids) and the count a close expects.
WaitLists == {<<1, 2>>, <<1>>}
WaitPrevious == <<1, 2>>
WaitExpected == Len(WaitPrevious) - 1

InitWait ==
    /\ host = [windows |-> <<1>>, pairs |-> Pair(TRUE, Leaf(1 + GidBase), NoNode),
               active |-> 1, grown |-> 0]
    /\ state = [order |-> <<>>, expanded |-> FALSE]
    /\ timers = <<>>
    /\ nextId = 2
    /\ os_resize = FALSE
    /\ last = InitLast
    /\ scen = NoScen
    /\ call \in [fn : {"wait"}, cb : {"split", "normalize", "close"}, k : {1}, i : {0},
                  cur : {WaitPrevious}, met : {FALSE}, done : {FALSE}]

WaitVars == <<host, state, timers, nextId, os_resize, last, scen>>
LeaveLoop(cur, met) ==
    call' = [call EXCEPT !.k = call.k + 1, !.i = 0, !.cur = cur, !.met = met]
Iterate(cur) ==
    call' = [call EXCEPT !.i = call.i + 1, !.cur = cur]

\* One pass of the loop at k: obs is the pane list the host shows, first the
\* one the settle loop reads before its first pass, ready the host's answer
\* about group ids or the repaired shape.
Poll(obs, first, ready) ==
    /\ call.fn = "wait" /\ ~call.done
    /\ call.k <= Len(WaitLoops(call.cb))
    /\ LET loop == WaitLoops(call.cb)[call.k] IN
       IF exhausted(loop, call.i) THEN LeaveLoop(call.cur, call.met)
       ELSE IF loop = "change" THEN
           IF ~SameIds(obs, WaitPrevious) THEN LeaveLoop(obs, TRUE) ELSE Iterate(obs)
       ELSE IF loop = "settle" THEN
           LET current_ids == IF call.i = 0 THEN first ELSE call.cur IN
           IF obs = current_ids THEN LeaveLoop(current_ids, TRUE) ELSE Iterate(obs)
       ELSE IF loop = "count" THEN
           IF Len(call.cur) = WaitExpected THEN LeaveLoop(call.cur, TRUE)
           ELSE Iterate(obs)
       ELSE IF ready THEN LeaveLoop(call.cur, TRUE) ELSE Iterate(call.cur)
    /\ UNCHANGED WaitVars

\* A loop the callback has no cause to enter.
SkipLoop ==
    /\ call.fn = "wait" /\ ~call.done
    /\ call.k \in OptionalLoops(call.cb) /\ call.i = 0
    /\ call' = [call EXCEPT !.k = call.k + 1]
    /\ UNCHANGED WaitVars

\* Past its last loop the callback goes on with what it observed and returns.
WaitReturn ==
    /\ call.fn = "wait" /\ ~call.done
    /\ call.k > Len(WaitLoops(call.cb))
    /\ call' = [call EXCEPT !.done = TRUE]
    /\ UNCHANGED WaitVars

NextWait ==
    \/ \E obs \in WaitLists, first \in WaitLists, ready \in BOOLEAN : Poll(obs, first, ready)
    \/ SkipLoop
    \/ WaitReturn
\* The callback runs on: a sleep of 0.03 s ends and the next pass follows.
SpecWait == InitWait /\ [][NextWait]_vars /\ WF_vars(NextWait)

\* C13: whatever the host shows, no polling loop runs more passes than its
\* budget, at most 30, and the callback they are part of returns.
C13_WaitsTerminate ==
    /\ [](call.fn = "wait" =>
            (call.k <= Len(WaitLoops(call.cb)) =>
                call.i <= Budget(WaitLoops(call.cb)[call.k]) /\ call.i <= 30))
    /\ <>(call.fn = "wait" => call.done)

\* A deferred normalize returned though no poll of its seven loops was ever
\* satisfied: the pane list never changed and group ids never came.
C13_Witness ==
    /\ call.fn = "wait" /\ call.cb = "close"
    /\ call.done /\ ~call.met

\* ------------------------------------------------- close_window and timers
\* C14: a close_window callback on a tab of two or more panes asks the host
\* to close the pane, which leaves the tree as the host collapsed it, and
\* adds exactly one timer to those scheduled; one on a tab of one pane adds
\* none; no other callback schedules a timer; a timer that fires is taken
\* off the schedule, and every scheduled timer fires.
C14_OneShotTimer ==
    /\ [][(IsCloseWindow /\ Len(host.windows) > 1) =>
                (/\ last'.closed = host.active
                 /\ host' = HostOf(HostClose(NowTab, host.active, host'.active))
                 /\ Len(timers') = Len(timers) + 1
                 /\ SubSeq(timers', 1, Len(timers)) = timers
                 /\ timers'[Len(timers')].before_ids = host.windows)]_vars
    /\ [][(IsCloseWindow /\ Len(host.windows) <= 1) => timers' = timers]_vars
    /\ [][IsTimer => (timers' = Tail(timers) /\ last'.t = Head(timers))]_vars
    /\ [][~IsCloseWindow => Len(timers') <= Len(timers)]_vars
    /\ (timers # <<>>) ~> (timers = <<>> /\ last.op = "timer")

\* The timer of a close of the second of two panes has fired and none is left.
C14_Witness ==
    /\ last.op = "timer" /\ last.t.target = 2
    /\ last.t.before_ids = <<1, 2>>
    /\ timers = <<>>

\* C18: a close_window callback on a tab of one pane leaves the host as it
\* was, asks for no close and schedules no timer; on a tab of more panes it
\* leaves at least one.
C18_LastPaneKept ==
    [][IsCloseWindow =>
          IF Len(host.windows) <= 1
          THEN host' = host /\ timers' = timers /\ last'.closed = 0
          ELSE Len(host'.windows) >= 1]_vars

\* Panes were opened and closed down to one, and the close asked of the last
\* one was refused.
C18_Witness ==
    /\ last.op = "close_window" /\ last.closed = 0
    /\ Len(host.windows) = 1 /\ nextId > 2
    /\ timers = <<>>

\* C20: a split, grow, normalize, shrink or deferred normalize that changed
\* the tree or the panes made one repaint call.
C20_RepaintFollows ==
    [][((host'.pairs # host.pairs \/ host'.windows # host.windows)
            /\ last'.op \in {"split", "normalize", "shrink", "timer"})
          => last'.repaint = 1]_vars

\* C15: when a split or grow that opened a pane ran between a close request
\* and the timer of that close, the timer does not replace the order the
\* split recorded with the one derived from the order_after its closure
\* holds.
C15_RecordedOrderKept ==
    [][(IsTimer /\ timers # <<>> /\ last.op = "split" /\ last.launched) =>
          (state'.order = state.order
              \/ state'.order # first_order(Head(timers).order_after, host.windows))]_vars

\* ------------------------------------------------ the repaint workaround
\* The end of a split (lines 536-539) or of do_normalize (lines 259-298):
\* the order is stored, then split_repaint_focus_bounce runs.  call holds
\* the callback (cb), the position (pc), whether state["order"] was written
\* (stored) and the answers of the compositor so far (trail).
\* The positions inside the inner try, and those inside the outer one.
InnerTry == {"monitor", "refocus"}
OuterTry == {"active", "clients", "focus1", "focus2", "reload"}
\* Variant: nothing catches.
handler_none(pc) == "escaped"
\* Where an exception raised at pc is caught: the inner handler logs and
\* goes on with the renderer reload, the outer one logs and returns.
handler(pc) ==
    IF pc \in InnerTry THEN "reload"
    ELSE IF pc \in OuterTry THEN "except"
    ELSE "escaped"

\* _hyprctl_json("activewindow") and the reads of its result
ActiveAnswers == {"exception", "nonzero", "malformed", "notdict", "noaddress", "noworkspace", "ok"}
\* _hyprctl_json("clients") and the loop over it
ClientAnswers == {"exception", "nonzero", "malformed", "null", "none", "some"}
\* _hyprctl_dispatch
DispatchAnswers == {"exception", "nonzero", "ok"}
Raises(answer) == answer \in {"exception", "nonzero", "malformed", "notdict", "null"}

\* The values of KITTY_HYPRLAND_WAYLAND_SPLIT_WORKAROUND, and what
\* .strip().lower() makes of them ("unset": the default "1" is taken).
Settings == {"unset", "0", "false", "no", "off", " Off ", "FALSE", "1", "on", ""}
stripped_lower(setting) ==
    CASE setting = "unset" -> "1"
      [] setting = " Off " -> "off"
      [] setting = "FALSE" -> "false"
      [] OTHER -> setting
\* Variant: only the toggle "0" turns the workaround off.
setting_off_zero(setting) == stripped_lower(setting) = "0"
setting_off(setting) == stripped_lower(setting) \in {"0", "false", "no", "off"}
\* The sessions: is_wayland() and HYPRLAND_INSTANCE_SIGNATURE.
Sessions == {"x11", "x11-signature", "wayland", "wayland-empty-signature", "hyprland"}
\* Variant: the signature alone decides.
is_hyprland_wayland_by_signature(session) == session \in {"x11-signature", "hyprland"}
is_hyprland_wayland(session) == session = "hyprland"

\* The answers a position can get.
Answers(pc) ==
    CASE pc = "store" -> {"ok"}
      [] pc = "setting" -> Settings
      [] pc = "detect" -> Sessions
      [] pc = "active" -> ActiveAnswers
      [] pc = "clients" -> ClientAnswers
      [] pc = "except" -> {"ok"}
      [] OTHER -> DispatchAnswers
\* The position after pc when nothing was raised.
after(pc, answer) ==
    CASE pc = "store" -> "setting"
      [] pc = "setting" -> IF setting_off(answer) THEN "done" ELSE "detect"
      [] pc = "detect" -> IF is_hyprland_wayland(answer) THEN "active" ELSE "done"
      [] pc = "active" -> IF answer = "noaddress" THEN "done"
                          ELSE IF answer = "noworkspace" THEN "monitor"
                          ELSE "clients"
      [] pc = "clients" -> IF answer = "some" THEN "focus1" ELSE "monitor"
      [] pc = "focus1" -> "focus2"
      [] pc = "focus2" -> "done"
      [] pc = "monitor" -> "refocus"
      [] pc = "refocus" -> "reload"
      [] OTHER -> "done"
split_repaint_focus_bounce(pc, answer) ==
    IF Raises(answer) THEN handler(pc) ELSE after(pc, answer)
\* Variant: the reload comes first and the monitor bounce last.
hyprctl_reload_first(pc) ==
    CASE pc = "active" -> <<"activewindow">>
      [] pc = "clients" -> <<"clients">>
      [] pc = "focus1" -> <<"focuswindow candidate">>
      [] pc = "focus2" -> <<"focuswindow address">>
      [] pc = "monitor" -> <<"forcerendererreload">>
      [] pc = "refocus" -> <<"focuswindow address">>
      [] pc = "reload" -> <<"focusmonitor current">>
      [] OTHER -> <<>>
\* The hyprctl command a position runs (<<>>: none).
hyprctl(pc) ==
    CASE pc = "active" -> <<"activewindow">>
      [] pc = "clients" -> <<"clients">>
      [] pc = "focus1" -> <<"focuswindow candidate">>
      [] pc = "focus2" -> <<"focuswindow address">>
      [] pc = "monitor" -> <<"focusmonitor current">>
      [] pc = "refocus" -> <<"focuswindow address">>
      [] pc = "reload" -> <<"forcerendererreload">>
      [] OTHER -> <<>>

\* The compositor window that holds the focus after the command of a
\* position: a focuswindow dispatch that was answered without error moves
\* it, to the candidate or back to the window active at the start.
compositor_focus(pc, answer, focus) ==
    IF Raises(answer) THEN focus
    ELSE IF hyprctl(pc) = <<"focuswindow candidate">> THEN "candidate"
    ELSE IF hyprctl(pc) = <<"focuswindow address">> THEN "original"
    ELSE focus

InitBounce ==
    /\ host = [windows |-> <<1>>, pairs |-> Pair(TRUE, Leaf(1 + GidBase), NoNode),
               active |-> 1, grown |-> 0]
    /\ state = [order |-> <<>>, expanded |-> FALSE]
    /\ timers = <<>>
    /\ nextId = 2
    /\ os_resize = FALSE
    /\ last = InitLast
    /\ scen = NoScen
    /\ call \in [fn : {"bounce"}, cb : {"split", "timer"}, pc : {"store"},
                  stored : {FALSE}, trail : {<<>>}, cmds : {<<>>},
                  focus : {"original"}, away : {FALSE}]

\* state["order"] = order
StoreOrder ==
    /\ call.fn = "bounce" /\ call.pc = "store"
    /\ call' = [call EXCEPT !.pc = after("store", "ok"), !.stored = TRUE]
    /\ UNCHANGED WaitVars
BounceStep(answer) ==
    /\ call.fn = "bounce" /\ call.pc \notin {"store", "done", "escaped"}
    /\ answer \in Answers(call.pc)
    /\ call' = [call EXCEPT !.pc = split_repaint_focus_bounce(call.pc, answer),
                            !.trail = Append(call.trail, answer),
                            !.cmds = call.cmds \o hyprctl(call.pc),
                            !.focus = compositor_focus(call.pc, answer, call.focus),
                            !.away = call.away \/
                                compositor_focus(call.pc, answer, call.focus) # "original"]
    /\ UNCHANGED WaitVars
NextBounce ==
    \/ StoreOrder
    \/ \E answer \in ActiveAnswers \cup ClientAnswers \cup Settings \cup Sessions :
            BounceStep(answer)
SpecBounce == InitBounce /\ [][NextBounce]_vars

\* C19: whatever the compositor answers, no exception leaves
\* split_repaint_focus_bounce, and it runs only once the order is stored.
C19_RepaintReturns ==
    call.fn = "bounce" =>
        /\ call.pc # "escaped"
        /\ call.pc # "store" => call.stored

\* The workaround returned after the clients query gave malformed JSON.
C19_Witness ==
    /\ call.fn = "bounce" /\ call.pc = "done" /\ call.stored
    /\ call.trail = <<"unset", "hyprland", "ok", "malformed", "ok">>

\* The dispatch commands among those run, the queries left out.
Dispatched == SelectSeq(call.cmds, LAMBDA c : c \notin {"activewindow", "clients"})
\* No command so far was answered by an exception or a non-zero exit.
AllAnswered == \A i \in 1..Len(call.trail) : ~Raises(call.trail[i])
\* The workaround has returned, and the clients query found a candidate
\* (another mapped, visible window of the workspace) or none.
BounceDone == call.fn = "bounce" /\ call.pc = "done"
WithCandidate == Len(call.trail) >= 4 /\ call.trail[4] = "some"
WithoutCandidate == Len(call.trail) >= 4 /\ call.trail[4] = "none"

\* C21 as stated: with a candidate the commands dispatched are the two
\* focuswindow ones, without one the three of the monitor bounce and the
\* reload, whatever the compositor answered to them.
C21_AsStated ==
    BounceDone =>
        /\ WithCandidate => Dispatched = <<"focuswindow candidate", "focuswindow address">>
        /\ WithoutCandidate =>
              Dispatched = <<"focusmonitor current", "focuswindow address", "forcerendererreload">>

\* C21: when every command is answered without error, the commands
\* dispatched are as stated; when one is not, with a candidate nothing is
\* dispatched after the failed command and never a reload, and without a
\* candidate a failed focusmonitor leaves out the focuswindow while the
\* reload is dispatched all the same, last.
C21_RepaintOrder ==
    BounceDone =>
        /\ WithCandidate =>
              /\ Dispatched \in {<<"focuswindow candidate">>,
                                 <<"focuswindow candidate", "focuswindow address">>}
              /\ AllAnswered => Len(Dispatched) = 2
        /\ WithoutCandidate =>
              /\ Dispatched \in {<<"focusmonitor current", "forcerendererreload">>,
                                 <<"focusmonitor current", "focuswindow address",
                                   "forcerendererreload">>}
              /\ AllAnswered => Len(Dispatched) = 3

\* The monitor bounce ran to its end and the reload followed.
C21_Witness ==
    /\ BounceDone /\ WithoutCandidate /\ AllAnswered
    /\ call.cmds = <<"activewindow", "clients", "focusmonitor current",
                     "focuswindow address", "forcerendererreload">>

\* C22: with the toggle at 0, false, no or off in any case and spacing, or
\* in a session that is not Wayland with a signature, no hyprctl command is
\* run.
C22_RepaintGated ==
    (call.fn = "bounce" /\ Len(call.trail) >= 1) =>
        /\ stripped_lower(call.trail[1]) \in {"0", "false", "no", "off"} =>
              call.cmds = <<>> /\ call.pc = "done"
        /\ (Len(call.trail) >= 2 /\ call.trail[2] # "hyprland") =>
              call.cmds = <<>> /\ call.pc = "done"

\* The toggle was " Off " and the workaround returned at once.
C22_Witness ==
    /\ BounceDone /\ call.trail = <<" Off ">>
    /\ call.cmds = <<>>

\* ------------------------------------------------------ shrink, close_tab
IsShrink == last'.op = "shrink" /\ ~FocusOnly
\* should_shrink, as the callback finds it.
ShouldShrink == os_resize /\ state.expanded /\ Len(host.windows) <= 2

IsCloseTab == last'.op = "close_tab" /\ ~FocusOnly
\* C24: a close_tab callback asks the host to close the tab, which leaves no
\* pane when the host does it and the tab as it was when the host raises,
\* and state["expanded"] is false after it either way.
C24_CloseTab ==
    [][IsCloseTab =>
          /\ ~state'.expanded
          /\ IF last'.raised THEN host' = host ELSE host'.windows = <<>>]_vars

\* The host raised on the close of an expanded tab, and the flag is reset.
C24_Witness ==
    /\ last.op = "close_tab" /\ last.raised
    /\ host.grown > 0 /\ host.windows # <<>>
    /\ ~state.expanded

\* --------------------------------------------------------- _parse_args
\* The words an argument list is made of, and what the string methods make
\* of them.
MaxArgs == 4
Words == {"smart_split.py", "4", "2", "-3", "--5", "auto", "hsplit",
          "horizontal-first", "grow", "close_tab"}
\* w.lstrip("-").isdigit()
lstrip_isdigit(w) == w \in {"4", "2", "-3", "--5"}
\* int(w) returns
int_parses(w) == w \in {"4", "2", "-3"}
int_of(w) == CASE w = "4" -> 4 [] w = "2" -> 2 [] OTHER -> 0 - 3
Orientations == {"hsplit", "vsplit", "auto"}
Modes == {"split", "grow", "shrink", "close_window", "close_tab", "normalize"}

\* Lines 106-108
param_args(args) ==
    IF args # <<>> /\ ~lstrip_isdigit(args[1]) THEN Tail(args) ELSE args
\* Lines 110-124 on param_args
parse_params(params) ==
    IF params = <<>> THEN <<4, "auto", "split">>
    ELSE <<IF int_parses(params[1]) THEN int_of(params[1]) ELSE 4,
           IF Len(params) > 1 /\ params[2] \in Orientations THEN params[2] ELSE "auto",
           IF Len(params) > 2 /\ params[3] \in Modes THEN params[3] ELSE "split">>
\* Variant: the first element is always taken for the kitten name.
parse_args_skip_first(args) == parse_params(IF args # <<>> THEN Tail(args) ELSE args)
parse_args(args) == parse_params(param_args(args))

InitArgs ==
    /\ host = [windows |-> <<1>>, pairs |-> Pair(TRUE, Leaf(1 + GidBase), NoNode),
               active |-> 1, grown |-> 0]
    /\ state = [order |-> <<>>, expanded |-> FALSE]
    /\ timers = <<>>
    /\ nextId = 2
    /\ os_resize = FALSE
    /\ last = InitLast
    /\ scen = NoScen
    /\ call \in [fn : {"args"}, args : SeqsUpTo(Words, MaxArgs), ret : {<<>>}]
ParseCall ==
    /\ call.fn = "args"
    /\ call' = [fn |-> "_parse_args", args |-> call.args, ret |-> parse_args(call.args)]
    /\ UNCHANGED WaitVars
NextArgs == ParseCall
SpecArgs == InitArgs /\ [][NextArgs]_vars

\* The arguments left once a leading element that is not digits behind
\* dashes is dropped, and the k-th of them ("": none).
Remaining == IF call.args # <<>> /\ call.args[1] \notin {"4", "2", "-3", "--5"}
             THEN Tail(call.args) ELSE call.args
Arg(k) == IF Len(Remaining) >= k THEN Remaining[k] ELSE ""

\* C25: _parse_args returns the integer of the first remaining argument or
\* 4, the second one when it is hsplit, vsplit or auto, else auto, and the
\* third one when it is one of the six modes, else split.
C25_ParseArgs ==
    call.fn = "_parse_args" =>
        /\ call.ret[1] = (CASE Arg(1) = "4" -> 4 [] Arg(1) = "2" -> 2
                            [] Arg(1) = "-3" -> 0 - 3 [] OTHER -> 4)
        /\ call.ret[2] = (IF Arg(2) \in {"hsplit", "vsplit", "auto"} THEN Arg(2) ELSE "auto")
        /\ call.ret[3] = (IF Arg(3) \in Modes THEN Arg(3) ELSE "split")

\* The kitten name was skipped, 2 and hsplit taken, and the unrecognised
\* mode became split.
C25_Witness ==
    /\ call.fn = "_parse_args"
    /\ call.args = <<"smart_split.py", "2", "hsplit", "horizontal-first">>
    /\ call.ret = <<2, "hsplit", "split">>

\* ------------------------------------------------- the order of a close
\* C26: when a close_window callback finds a recorded order that is a
\* duplicate-free permutation of the live panes, the slot order it chooses
\* is the geometry order only where that is the recorded order or the
\* canonical order of the tree.
C26_GeometryFallbackOnly ==
    [][(/\ IsCloseWindow /\ Len(host.windows) > 1 /\ timers' # timers
        /\ NoDup(state.order) /\ SameIds(state.order, host.windows)) =>
          (\/ timers'[Len(timers')].slot # order_by_geometry(NowTab, host.windows)
           \/ timers'[Len(timers')].slot = state.order
           \/ timers'[Len(timers')].slot = timers'[Len(timers')].canonical)]_vars

\* ------------------------------------------------------- the state store
\* boss._smart_split_state: a record per key, the key an OS window id or 0
\* for "__default__".  call holds the store, the last operation (op), its
\* key and the record ensure_state returned (ret).
MaxStateKey == 2
StateKeys == 0..MaxStateKey
NoRecord == [missing |-> TRUE]
NewRecord(width_delta, height_delta) ==
    [expanded |-> FALSE, width_delta |-> width_delta, height_delta |-> height_delta,
     order |-> <<>>]
\* Variant: the record is made anew on every call.
ensure_state_reset(store, state_key, width_delta, height_delta) ==
    [store EXCEPT ![state_key] = NewRecord(width_delta, height_delta)]
\* state_store.setdefault(state_key, {...})
ensure_state(store, state_key, width_delta, height_delta) ==
    IF store[state_key] = NoRecord
    THEN [store EXCEPT ![state_key] = NewRecord(width_delta, height_delta)]
    ELSE store
\* What a callback writes into the record it got: state["order"] = order,
\* state["expanded"] = expanded.
StoreOrders == {<<>>, <<1>>, <<2, 1>>}

InitStore ==
    /\ host = [windows |-> <<1>>, pairs |-> Pair(TRUE, Leaf(1 + GidBase), NoNode),
               active |-> 1, grown |-> 0]
    /\ state = [order |-> <<>>, expanded |-> FALSE]
    /\ timers = <<>>
    /\ nextId = 2
    /\ os_resize = FALSE
    /\ last = InitLast
    /\ scen = NoScen
    /\ call = [fn |-> "store", store |-> [k \in StateKeys |-> NoRecord],
               op |-> "init", key |-> 0, ret |-> NoRecord]
\* ensure_state on its own.
EnsureCall(key) ==
    /\ call.fn = "store"
    /\ LET store == ensure_state(call.store, key, WIDTH_DELTA_CELLS, HEIGHT_DELTA_CELLS)
       IN  call' = [fn |-> "store", store |-> store, op |-> "ensure", key |-> key,
                    ret |-> store[key]]
    /\ UNCHANGED WaitVars
\* handle_result for the OS window `key`: the record is fetched, then the
\* order and the flag are written into it.
InvocationFor(key, order, expanded) ==
    /\ call.fn = "store"
    /\ LET store == ensure_state(call.store, key, WIDTH_DELTA_CELLS, HEIGHT_DELTA_CELLS)
       IN  call' = [fn |-> "store",
                    store |-> [store EXCEPT ![key] = [store[key] EXCEPT !.order = order,
                                                                      !.expanded = expanded]],
                    op |-> "invocation", key |-> key, ret |-> store[key]]
    /\ UNCHANGED WaitVars
NextStore ==
    \/ \E key \in StateKeys : EnsureCall(key)
    \/ \E key \in StateKeys, order \in StoreOrders, expanded \in BOOLEAN :
            InvocationFor(key, order, expanded)
SpecStore == InitStore /\ [][NextStore]_vars

\* C27: ensure_state for a key without a record stores and returns one with
\* expanded false, the two deltas and an empty order; for a key with a
\* record it returns that record and leaves it as it is; no operation for one
\* key changes the record of another.
C27_PerContainerState ==
    [][(call.fn = "store" /\ call'.fn = "store") =>
          /\ \A k \in StateKeys \ {call'.key} : call'.store[k] = call.store[k]
          /\ call'.ret = IF call.store[call'.key] = NoRecord
                         THEN [expanded |-> FALSE, width_delta |-> WIDTH_DELTA_CELLS,
                               height_delta |-> HEIGHT_DELTA_CELLS, order |-> <<>>]
                         ELSE call.store[call'.key]
          /\ call'.op = "ensure" => call'.store[call'.key] = call'.ret]_vars

\* The record of key 1 was expanded with two panes, the one of key 2 was
\* made after it, and ensure_state returned the record of key 1 as it was.
C27_Witness ==
    /\ call.fn = "store" /\ call.op = "ensure" /\ call.key = 1
    /\ call.ret.expanded /\ call.ret.order = <<2, 1>>
    /\ call.store[2] # NoRecord /\ ~call.store[2].expanded

\* ------------------------------------------------- the launch of a split
\* Lines 441-454 and 478-499 on any tree of up to MaxLaunchPanes panes: the
\* location is chosen, the host launches the pane, the move to the bottom
\* edge follows where it is due.  call holds the pane count before, the
\* orientation asked, the location chosen, the tree as the launch left it
\* and whether the host takes layout actions (rc).
MaxLaunchPanes == 5
InitLaunch ==
    /\ \E n \in 1..MaxLaunchPanes :
          /\ host \in [windows : {[i \in 1..n |-> i]}, pairs : HostTrees(n),
                        active : {1, n}, grown : {0}]
          /\ nextId = n + 1
    /\ state = [order |-> <<>>, expanded |-> FALSE]
    /\ timers = <<>>
    /\ os_resize = FALSE
    /\ last = InitLast
    /\ scen = NoScen
    /\ call = NoCall
Launched(env, orientation) ==
    HostLaunch(Tab(env), chosen_location(orientation, Len(host.windows)), nextId)
LaunchCall(env, orientation) ==
    /\ call = NoCall
    /\ call' = [fn |-> "launch", count |-> Len(host.windows), orientation |-> orientation,
                location |-> chosen_location(orientation, Len(host.windows)),
                launched |-> Launched(env, orientation).pairs,
                new_id |-> nextId, rc |-> env.rc]
    /\ host' = HostOf(move_to_bottom(Launched(env, orientation), Len(host.windows),
                                     orientation, nextId))
    /\ nextId' = nextId + 1
    /\ UNCHANGED <<state, timers, os_resize, last, scen>>
NextLaunch ==
    \E env \in Env(Yes, Yes, Direct, BOOLEAN, Yes, Yes) :
        \E orientation \in {"auto", "hsplit", "vsplit"} : LaunchCall(env, orientation)
SpecLaunch == InitLaunch /\ [][NextLaunch]_vars

\* C28: with orientation auto the location is vsplit from 1 pane, hsplit
\* from 2, vsplit from 3, and from any other count vsplit when it is even
\* and hsplit when odd; from 2 panes the new pane is then moved to the
\* bottom edge, which leaves the other panes in the pair they were in; in
\* every other case, an explicit orientation included, the location is as
\* asked and the tree stays as the launch left it.
C28_LaunchLocation ==
    call.fn = "launch" =>
        /\ call.location =
              (IF call.orientation # "auto" THEN call.orientation
               ELSE CASE call.count = 1 -> "vsplit"
                      [] call.count = 2 -> "hsplit"
                      [] call.count = 3 -> "vsplit"
                      [] call.count = 4 -> "vsplit"
                      [] call.count = 5 -> "hsplit"
                      [] call.count = 6 -> "vsplit"
                      [] OTHER -> "hsplit")
        /\ host.pairs =
              (IF call.orientation = "auto" /\ call.count = 2 /\ call.rc
               THEN Pair(FALSE, RemoveLeaf(call.launched, call.new_id + GidBase),
                         Leaf(call.new_id + GidBase))
               ELSE call.launched)
        /\ RemoveLeaf(host.pairs, call.new_id + GidBase)
              = RemoveLeaf(call.launched, call.new_id + GidBase)

\* From two panes side by side the third was launched below the second and
\* moved under both.
C28_Witness ==
    /\ call.fn = "launch" /\ call.orientation = "auto" /\ call.count = 2
    /\ call.launched = Pair(TRUE, Leaf(1 + GidBase),
                            Pair(FALSE, Leaf(2 + GidBase), Leaf(3 + GidBase)))
    /\ host.pairs = Pair(FALSE, Pair(TRUE, Leaf(1 + GidBase), Leaf(2 + GidBase)),
                         Leaf(3 + GidBase))

\* ------------------------------------------------- splits of three panes
IsSplit == last'.op = "split" /\ ~FocusOnly
\* C29: a split or grow callback on a tab of three panes launches a pane
\* only when the geometry order has three entries and the active pane is
\* its third; when it launches none, the tab stays as it was.
C29_BottomSlotOnly ==
    [][(IsSplit /\ Len(host.windows) = 3) =>
          /\ last'.launched =>
                /\ Len(order_by_geometry(NowTab, host.windows)) = 3
                /\ host.active = order_by_geometry(NowTab, host.windows)[3]
          /\ ~last'.launched => host' = host]_vars

\* ------------------------------------------- the checks after a launch
\* Lines 519-536 on any tree of up to MaxTreePanes panes and the orders a
\* split can come to: call holds the order, the tree before, whether the
\* geometry was readable and the tree installable, and what was stored.
\* The OS window is as configured or two deltas smaller, where the panes of
\* a canonical tree fall below the minimum size.
InitVerify ==
    /\ \E n \in 1..MaxTreePanes :
          /\ host \in [windows : {[i \in 1..n |-> i]}, pairs : HostTrees(n),
                        active : {n}, grown : {0, 0 - 2}]
          /\ nextId = n + 1
    /\ state = [order |-> <<>>, expanded |-> FALSE]
    /\ timers = <<>>
    /\ os_resize = FALSE
    /\ last = InitLast
    /\ scen = NoScen
    /\ call = NoCall
VerifyCall(env, order) ==
    /\ call = NoCall
    /\ call' = [fn |-> "verify", order |-> order, before |-> host.pairs, geo |-> env.geo,
                installable |-> Installable(env),
                rewrite |-> split_check_fails(Tab(env), order),
                stored |-> split_verify(Tab(env), order, FALSE).order]
    /\ host' = HostOf(split_verify(Tab(env), order, FALSE).tab)
    /\ UNCHANGED <<state, timers, nextId, os_resize, last, scen>>
NextVerify ==
    \E env \in Env(BOOLEAN, BOOLEAN, Insts, Yes, Yes, Yes) :
        \E order \in {host.windows, Reverse(host.windows)} : VerifyCall(env, order)
SpecVerify == InitVerify /\ [][NextVerify]_vars

\* The tab the checks were made on.
VerifiedTab == [NowTab EXCEPT !.pairs = call.before, !.geo = call.geo]
ChecksPass ==
    /\ layout_shape_matches(VerifiedTab, Len(host.windows))
    /\ call.geo /\ order_by_geometry(VerifiedTab, call.order) = call.order
    /\ pane_sizes_ok(VerifiedTab, host.windows)

\* C30: the tree is rewritten exactly when the shape, the geometry order or
\* the pane sizes fail the check; when all three pass, the tree stays as the
\* host built it and the order is stored as it is; when one fails and the
\* tree can be installed, the tree has the canonical shape afterwards.
C30_RewriteOnFailedCheck ==
    call.fn = "verify" =>
        /\ call.rewrite = ~ChecksPass
        /\ ChecksPass => (host.pairs = call.before /\ call.stored = call.order)
        /\ (~ChecksPass /\ call.installable /\ Len(host.windows) \in 1..4) =>
              layout_shape_matches(NowTab, Len(host.windows))

\* A tree of three panes of the canonical shape, listed in geometry order
\* and large enough, was left alone.
C30_Witness ==
    /\ call.fn = "verify" /\ ~call.rewrite
    /\ Len(host.windows) = 3 /\ host.pairs = call.before
    /\ call.order = <<1, 2, 3>> /\ host.grown = 0

\* ------------------------------------------------ the focus after a close
\* The tab a timer leaves, read by a cooperating host.
TabAfter == [NowTab EXCEPT !.windows = host'.windows, !.pairs = host'.pairs,
                           !.active = host'.active, !.grown = host'.grown]
Perms(ids) == {q \in NoDupSeqs(Range(ids), Len(ids)) : Len(q) = Len(ids)}
RoundCall(env, order) == LayoutCall(env, order)
NextRound ==
    /\ call = NoCall
    /\ \E env \in Env(Yes, BOOLEAN, AllInsts, Yes, Yes, Yes) :
          \E order \in Perms(host.windows) : RoundCall(env, order)
SpecRound == InitLayout /\ [][NextRound]_vars

MaxRaceTimers == 2
NoRace == [fn |-> "race", closes |-> FALSE, splits |-> FALSE]
InitRace ==
    /\ host = [windows |-> <<1>>, pairs |-> Pair(TRUE, Leaf(1 + GidBase), NoNode),
               active |-> 1, grown |-> 0]
    /\ state = [order |-> <<>>, expanded |-> FALSE]
    /\ timers = <<>>
    /\ nextId = 2
    /\ os_resize = FALSE
    /\ last = InitLast
    /\ scen = NoScen
    /\ call = NoRace
RaceSplitStep(max_windows, env, out) ==
    /\ out.launched => nextId <= MaxWid
    /\ Callback("split", max_windows, out, env, NoTimer)
    /\ call' = [call EXCEPT !.splits = @ \/ (timers # <<>> /\ out.launched /\ ~out.raised)]
    /\ UNCHANGED <<timers, scen>>
RaceSplit(orientation, env) ==
    RaceSplitStep(4, env, handle_result(Tab(env), state, os_resize, 4, orientation,
                                        "split", nextId, 0))
RaceCloseStep(env, out) ==
    /\ Len(timers) + Len(out.timer) <= MaxRaceTimers
    /\ Callback("close_window", 0, out, env, NoTimer)
    /\ timers' = timers \o out.timer
    /\ call' = [call EXCEPT !.closes = @ \/ (timers # <<>> /\ out.timer # <<>>)]
    /\ UNCHANGED scen
RaceClose(env, focus) ==
    RaceCloseStep(env, handle_result(Tab(env), state, os_resize, 4, "auto",
                                     "close_window", nextId, focus))
RaceTimer(env) ==
    /\ timers # <<>>
    /\ Callback("timer", 0, do_normalize(Tab(env), state, os_resize, Head(timers)),
                env, Head(timers))
    /\ timers' = Tail(timers)
    /\ UNCHANGED <<scen, call>>
RaceFocus(wid) ==
    /\ wid # host.active
    /\ host' = [host EXCEPT !.active = wid]
    /\ UNCHANGED <<state, timers, nextId, os_resize, last, scen, call>>
NextRace ==
    \/ \E orientation \in {"auto", "hsplit"} :
          \E env \in Env(BOOLEAN, BOOLEAN, Insts, Yes, Yes, Yes) : RaceSplit(orientation, env)
    \/ \E env \in Env(BOOLEAN, BOOLEAN, Direct, Yes, Yes, Yes), focus \in CloseFocus :
            RaceClose(env, focus)
    \/ \E env \in Env(BOOLEAN, BOOLEAN, Insts, Yes, Yes, Yes) : RaceTimer(env)
    \/ \E wid \in Live : RaceFocus(wid)
SpecRace == InitRace /\ [][NextRace]_vars

MaxPanesArg == 6
InitGrid ==
    /\ host \in [windows : {<<1, 2, 3, 4>>}, pairs : HostTrees(4),
                 active : 1..4, grown : {0}]
    /\ state = [order |-> <<1, 2, 3, 4>>, expanded |-> FALSE]
    /\ timers = <<>>
    /\ nextId = 5
    /\ os_resize = FALSE
    /\ last = InitLast
    /\ scen = NoScen
    /\ call = NoCall
GridSplit(mode, max_windows, orientation, env) ==
    /\ Callback("split", max_windows,
                handle_result(Tab(env), state, os_resize, max_windows, orientation,
                              mode, nextId, 0),
                env, NoTimer)
    /\ call' = [fn |-> "grid", mode |-> mode, max |-> max_windows,
                before |-> host.pairs, gids |-> env.gids]
    /\ UNCHANGED <<timers, scen>>
NextGrid ==
    /\ call = NoCall
    /\ \E mode \in {"split", "grow"}, max_windows \in 1..MaxPanesArg,
          orientation \in {"auto", "hsplit", "vsplit"} :
          \E env \in Env(Yes, BOOLEAN, Direct, Yes, BOOLEAN, Yes) :
              GridSplit(mode, max_windows, orientation, env)
SpecGrid == InitGrid /\ [][NextGrid]_vars

\* The tab before the invocation.
GridBefore == [NowTab EXCEPT !.windows = <<1, 2, 3, 4>>, !.pairs = call.before]

C35_Bookkeeping ==
    /\ state.expanded <=> host.grown = 1
    /\ ~state.expanded <=> host.grown = 0

\* ------------------------------------------ the focus after the repaint
\* C36, as stated: whenever split_repaint_focus_bounce dispatched a focus
\* change away from the compositor window active at its start, the focus is
\* back on that window when the function returns, a later dispatch command
\* that fails included.
C36_FocusRestored ==
    (BounceDone /\ call.away) => call.focus = "original"

\* ------------------------------------------- the classifiers side by side
\* The three classifiers applied to a tab of 1 to 4 panes in any split
\* tree, with the geometry readable or not and the newest pane's group
\* resolvable or not.
ClassifyAll(env) ==
    /\ call' = [fn |-> "classifiers", geo |-> env.geo, gids |-> env.gids,
                shape |-> layout_shape_matches(Tab(env), Len(host.windows)),
                inverted |-> three_pane_layout_inverted(Tab(env), host.windows),
                canonical |-> canonical_order_from_pairs(Tab(env), host.windows)]
    /\ UNCHANGED <<host, state, timers, nextId, os_resize, last, scen>>
NextClassify ==
    \E env \in Env(BOOLEAN, BOOLEAN, Direct, Yes, Yes, Yes) : ClassifyAll(env)
SpecClassify == InitTree /\ [][NextClassify]_vars

\* C37: on a tab of three panes layout_shape_matches(tab, 3) and
\* three_pane_layout_inverted(tab, ids) are never both true, and
\* canonical_order_from_pairs returns a list only where layout_shape_matches
\* is true for the pane count.
C37_ClassifiersAgree ==
    call.fn = "classifiers" =>
        /\ Len(host.windows) = 3 => ~(call.shape /\ call.inverted)
        /\ call.canonical # <<>> => call.shape

\* Three panes with 3 and 1 on top and 2 below: the shape matches, the tree
\* is not inverted and the canonical order is read off it.
C37_Witness ==
    /\ call.fn = "classifiers"
    /\ Len(host.windows) = 3
    /\ call.shape /\ ~call.inverted
    /\ call.canonical = <<3, 1, 2>>

\* --------------------------------------------- the two installation paths
\* normalize_layout's two trees for one list of group ids, of any length up
\* to MaxPathIds and with repeated ids: built only for 2 to 4 ids, lines
\* 574-579 return before for any other length.
MaxPathIds == 5
InitPaths ==
    /\ host = [windows |-> <<1>>, pairs |-> Pair(TRUE, Leaf(1 + GidBase), NoNode),
               active |-> 1, grown |-> 0]
    /\ state = [order |-> <<>>, expanded |-> FALSE]
    /\ timers = <<>>
    /\ nextId = 2
    /\ os_resize = FALSE
    /\ last = InitLast
    /\ scen = NoScen
    /\ call \in [fn : {"group_ids"}, group_ids : SeqsUpTo(Gids, MaxPathIds)]
PathsCall ==
    /\ call.fn = "group_ids"
    /\ call' = IF Len(call.group_ids) <= 1 \/ Len(call.group_ids) > 4
               THEN [fn |-> "paths", built |-> FALSE, group_ids |-> call.group_ids]
               ELSE [fn |-> "paths", built |-> TRUE, group_ids |-> call.group_ids,
                     pairs_root |-> build_pairs_root(call.group_ids),
                     pairs |-> serialized_pairs(call.group_ids)]
    /\ UNCHANGED WaitVars
NextPaths == PathsCall
SpecPaths == InitPaths /\ [][NextPaths]_vars

\* C38: for every group-id list of length 2, 3 or 4 the tree
\* _build_pairs_root builds for the direct installation and the pairs dict
\* written for the serialize path describe the same tree: the host reads
\* the dict as a tree of the same orientations, nesting and leaf order, the
\* leaves being the group ids in the order given.
C38_PathsAgree ==
    (call.fn = "paths" /\ Len(call.group_ids) \in 2..4) =>
        /\ call.built
        /\ unserialize(call.pairs) = call.pairs_root
        /\ collect_pair_leaves(call.pairs_root) = call.group_ids

\* Four group ids out of id order: the dict and the tree are both the grid
\* with 13 and 11 on top and 14 and 12 below.
C38_Witness ==
    /\ call.fn = "paths" /\ call.built
    /\ call.group_ids = <<13, 11, 14, 12>>
    /\ call.pairs = DictEntry(FALSE, DictEntry(TRUE, IntEntry(13), IntEntry(11)),
                                     DictEntry(TRUE, IntEntry(14), IntEntry(12)))
    /\ call.pairs_root = Pair(FALSE, Pair(TRUE, Leaf(13), Leaf(11)),
                                     Pair(TRUE, Leaf(14), Leaf(12)))

====
